---- MODULE Spec2Model ----
(***************************************************************************)
(* Model of cb::JEArenaMalloc (src/src/je_arena_malloc.cc) instantiated    *)
(* with JEArenaThreadLocalTracker (src/unnamed/part_006), as selected by   *)
(* src/include/platform/je_arena_malloc.h:112.                             *)
(*                                                                         *)
(* Every thread is a small program: an operation is entered by a Call      *)
(* action, advances through one action per access to shared memory, parks  *)
(* at pc = "ret" with its result, and goes back to "idle" by Return.       *)
(*                                                                         *)
(* folly::ThreadCachedInt<int64_t> (threadAllocated) is modelled by what   *)
(* the calls made in part_006 do: a shared atomic target_, and per thread  *)
(* an IntCache {val_, reset_, numUpdates_}.  increment() writes only the   *)
(* caller's IntCache and flushes it into target_ once numUpdates_ exceeds  *)
(* cacheSize_; readFast() loads target_; readFastAndReset() exchanges      *)
(* target_ with 0; readFullAndReset() exchanges target_ with 0 and then,   *)
(* for every thread's IntCache that is not marked reset_, adds val_ and    *)
(* marks it reset_.                                                        *)
(***************************************************************************)
EXTENDS Integers, FiniteSets, Sequences, TLC

\* ---------------------------------------------------------------- bounds
\* ArenaMallocMaxClients is 100 in the source; the model keeps the table
\* small so that exhaustion and slot reuse are reached.
ArenaMallocMaxClients == 2
\* number of threads of the process
NumThreads == 2
\* number of blocks the allocator can have live at once
MaxPtrs == 2
\* folly::ThreadCachedInt cacheSize_ (1000 by default), scaled down so that a
\* flush of an IntCache into target_ is reached
CacheSize == 1
\* width of size_t in bits (64 in the source), scaled down to TLC's integers
SizeBits == 16
\* largest magnitude a byte counter may reach before the operation that would
\* exceed it is held back
ByteCap == 96
\* calls the threads of the free-running system make in all
MaxCalls == 5
\* calls made, one at a time, before a scripted scenario starts
MaxHistory == 4
\* calls each thread makes on a counter the threads share
CounterCalls == 2

\* ------------------------------------------------------------- constants
NoClientIndex == ArenaMallocMaxClients + 1
DefaultEstimateUpdateThreshold == 102400
MALLOCX_TCACHE_NONE == 256

Threads == 1..NumThreads
Indices == 0..(ArenaMallocMaxClients - 1)
Ptrs == 1..MaxPtrs
NULL == 0
NoThread == 0

\* requested sizes handed to malloc/calloc/realloc
ReqSizes == {0, 20}
\* nmemb handed to calloc
ReqCounts == {1, 2}
\* thresholds a caller installs with updateClientThreshold
Thresholds == {8}
\* sizes the scripted scenarios allocate
ScriptSizes == {1, 20}

\* ------------------------------------------------------- pure functions
Abs(x) == IF x < 0 THEN -x ELSE x

Max(a, b) == IF a >= b THEN a ELSE b

RECURSIVE Pow2Ceil(_, _)
\* smallest p * 2^k >= n
Pow2Ceil(n, p) == IF p >= n THEN p ELSE Pow2Ceil(n, 2 * p)

RoundUp(n, q) == ((n + q - 1) \div q) * q

\* je_nallocx(size, 0): the size class jemalloc serves a request from
\* (8, 16, 32, 48, 64, 80, 96, 112, 128, 160, ...: four classes per doubling,
\* never finer than the 16 byte quantum).
je_nallocx(size) ==
    IF size <= 8 THEN 8
    ELSE RoundUp(size, Max(16, Pow2Ceil(size, 1) \div 8))

\* size_t(x) of an int64_t: two's complement wrap
ToSizeT(x) == x % (2 ^ SizeBits)

\* size_t(std::max(int64_t(0), v))
ClampUnsignedMut(v) == ToSizeT(v)
ClampUnsigned(v) == ToSizeT(Max(0, v))

MALLOCX_ARENA(a) == (a + 1) * 1048576
MALLOCX_TCACHE(tc) == (tc + 2) * 256

\* the arena a block is served from under the flags: the one MALLOCX_ARENA
\* names, else (0) one jemalloc picks itself
FlagsArena(flags) ==
    IF flags >= 1048576 THEN (flags \div 1048576) - 1 ELSE 0

\* the id jemalloc's tcache.create hands out: opaque, nonzero, never shared
makeTCache(t, i) == 1 + (t - 1) * ArenaMallocMaxClients + i

\* the ids tcache.create can hand out
TCacheIds == 1..(NumThreads * ArenaMallocMaxClients)

\* ------------------------------------- cb::NonNegativeCounter<T, Policy>
\* width of T in bits: uint8_t, the narrowest type the tests instantiate
CounterBits == 8

\* std::numeric_limits<T>::max()
CounterMax == 2 ^ CounterBits - 1

\* T(x) and SignedT(x): two's complement conversions
ToT(x) == x % (2 ^ CounterBits)
ToSignedT(x) ==
    IF ToT(x) >= 2 ^ (CounterBits - 1) THEN ToT(x) - 2 ^ CounterBits
    ELSE ToT(x)

Policies == {"Saturate", "ThrowException"}

\* SignedT arguments handed to fetch_add and fetch_sub
SignedArgs ==
    {-(2 ^ (CounterBits - 1)), -10, -3, -2, -1, 0, 1, 2, 3, 10,
     2 ^ (CounterBits - 1) - 1}
\* T arguments handed to operator+= and operator-= (`nnAtomic += -1` passes
\* T(-1))
UnsignedArgs == {ToT(a) : a \in SignedArgs}
\* values a counter is constructed with or assigned
Initials == {0, 1, 2, 4, 5, CounterMax}

\* what one pass of the loop body decides: the value to store, the exception
\* thrown instead, and the policy member that was invoked
Kept(desired) == [desired |-> desired, thrown |-> "none", policy |-> "none"]

\* OverflowPolicy<T>::exceed
exceed(P, desired) ==
    IF P = "Saturate"
    THEN [desired |-> CounterMax, thrown |-> "none", policy |-> "exceed"]
    ELSE [desired |-> desired, thrown |-> "overflow_error",
          policy |-> "exceed"]

\* OverflowPolicy<T>::subceed
subceed(P, desired) ==
    IF P = "Saturate"
    THEN [desired |-> 0, thrown |-> "none", policy |-> "subceed"]
    ELSE [desired |-> desired, thrown |-> "underflow_error",
          policy |-> "subceed"]

\* NonNegativeCounter::fetch_add(SignedT arg) on the value `current`; the
\* operands of `SignedT(current) + arg` are promoted to int
fetch_add(P, current, arg) ==
    IF arg < 0
    THEN LET desired == ToT(current - ToT(Abs(arg)))
         IN  IF ToSignedT(current) + arg < 0 THEN subceed(P, desired)
             ELSE Kept(desired)
    ELSE LET desired == ToT(current + ToT(arg))
         IN  IF desired < ToT(arg) THEN exceed(P, desired)
             ELSE Kept(desired)

\* NonNegativeCounter::fetch_sub(SignedT arg) on the value `current`
fetch_sub(P, current, arg) ==
    IF arg < 0
    THEN LET desired == ToT(current + ToT(Abs(arg)))
         IN  IF desired < ToT(arg) THEN exceed(P, desired)
             ELSE Kept(desired)
    ELSE LET desired == ToT(current - ToT(arg))
         IN  IF desired < ToT(arg) THEN subceed(P, desired)
             ELSE Kept(desired)

\* -------------------------------------------------------------- state
VARIABLES
    clients,               \* folly::Synchronized<array<Client>>: used, arena
    clientsLock,           \* holder of clients.wlock()
    arenasCreated,         \* arenas.create calls made
    tcacheEnabled,         \* static bool tcacheEnabled
    currentClient,         \* thread_local CurrentClient {mallocFlags, index}
    threadLocalData,       \* thread_local ThreadLocalData: tcache per index
    tld,                   \* per thread: its unique_ptr to the ThreadLocalData
    tcaches,               \* jemalloc: per tcache id, creations and destructions
    taTarget,              \* threadAllocated[i].target_
    taCache,               \* threadAllocated[i]: IntCache of each thread
    accessLock,            \* holder of ThreadCachedInt's accessAllThreads()
    threadThreshold,       \* threadThreshold[i]
    clientEstimatedMemory, \* clientEstimatedMemory[i]
    heap,                  \* jemalloc: sallocx of every live block, else 0
    blockArena,            \* jemalloc: the arena every live block is in
    totals,                \* per slot: the registered sink and what it holds
    thr,                   \* per thread: position and locals of its call
    callsMade,             \* caller side: calls made outside a script
    script,                \* caller side: the scenario being run
    prog,                  \* caller side: per thread, the calls still to make
    obs,                   \* caller side: per thread, what its calls returned
    handles,               \* caller side: the handles registerClient returned
                           \* and no unregister call has taken back
    nnAtomic,              \* caller side: a cb::NonNegativeCounter<T, Policy>
    nnCall                 \* caller side: the last operation on nnAtomic

vars == <<clients, clientsLock, arenasCreated, tcacheEnabled, currentClient,
          threadLocalData, tld, tcaches, taTarget, taCache, accessLock, threadThreshold,
          clientEstimatedMemory, heap, blockArena, totals, thr, callsMade,
          script, prog, obs, handles, nnAtomic, nnCall>>

counterVars == <<nnAtomic, nnCall>>
callerVars == <<callsMade, script, prog, obs, handles, counterVars>>

registryVars == <<clients, clientsLock, arenasCreated>>
tcacheVars == <<threadLocalData, tld, tcaches>>
switchVars == <<tcacheEnabled, currentClient, tcacheVars>>
trackerVars == <<taTarget, taCache, accessLock, threadThreshold,
                 clientEstimatedMemory>>
memVars == <<heap, blockArena, totals>>

IdleFrame ==
    [pc |-> "idle", op |-> "none", size |-> 0, nmemb |-> 0, ptr |-> NULL,
     phase |-> "none", acc |-> 0, todo |-> {}, cur |-> NoThread,
     h |-> NoClientIndex, arena |-> 0, hint |-> FALSE, tc |-> FALSE,
     newArena |-> FALSE, res |-> 0, err |-> "none"]

NoCache == [exists |-> FALSE, val |-> 0, reset |-> FALSE, numUpdates |-> 0]

\* a slot with no sink registered
NoSink == [registered |-> FALSE, value |-> 0]

NoScript ==
    [kind |-> "none", h |-> NoClientIndex, n |-> 0, m |-> 0, base |-> 0,
     stage |-> 0, worker |-> NoThread]

\* no operation made on the counter yet
NoCall ==
    [op |-> "none", arg |-> 0, current |-> 0, ret |-> 0, thrown |-> "none",
     policy |-> "none"]

Init ==
    /\ clients = [i \in Indices |-> [used |-> FALSE, arena |-> 0]]
    /\ clientsLock = NoThread
    /\ arenasCreated = 0
    /\ tcacheEnabled = TRUE
    /\ currentClient = [t \in Threads |->
                          [mallocFlags |-> 0, index |-> NoClientIndex]]
    /\ threadLocalData = [t \in Threads |-> [i \in Indices |-> 0]]
    /\ tld = [t \in Threads |-> "null"]
    /\ tcaches = [id \in TCacheIds |-> [created |-> 0, destroyed |-> 0]]
    /\ taTarget = [i \in Indices |-> 0]
    /\ taCache = [i \in Indices |-> [t \in Threads |-> NoCache]]
    /\ accessLock = NoThread
    /\ threadThreshold = [i \in Indices |-> 0]
    /\ clientEstimatedMemory = [i \in Indices |-> 0]
    /\ heap = [p \in Ptrs |-> 0]
    /\ blockArena = [p \in Ptrs |-> 0]
    /\ totals = [i \in Indices |-> NoSink]
    /\ thr = [t \in Threads |-> IdleFrame]
    /\ callsMade = 0
    /\ script = NoScript
    /\ prog = [t \in Threads |-> <<>>]
    /\ obs = [t \in Threads |-> <<>>]
    /\ handles = <<>>
    /\ nnAtomic = [policy |-> "Saturate", value |-> 0]
    /\ nnCall = NoCall

\* --------------------------------------------------- accounting backend
MemOps == {"malloc", "calloc", "realloc", "free", "sized_free"}

\* jemalloc's je_sallocx(ptr, 0): the size class the live block was served from
je_sallocx(p) == heap[p]

\* `auto c = currentClient;` at the head of every allocation entry point
CurrentIndexMut(t) ==
    IF currentClient[t].index = NoClientIndex THEN 0 ELSE currentClient[t].index
CurrentIndex(t) == currentClient[t].index

\* `if (index != NoClientIndex)` of memAllocated / memDeallocated
TrackedMut(index) == index # NoClientIndex /\ clients[index].used
Tracked(index) == index # NoClientIndex

\* the entry of threadAllocated the thread's running call works on: the
\* index it charges (allocation entry points), else the handle it was given
ChainIndexMut(t) ==
    IF thr[t].op \in MemOps THEN 0 ELSE thr[t].h
ChainIndex(t) ==
    IF thr[t].op \in MemOps THEN CurrentIndex(t) ELSE thr[t].h

\* the amount passed to ThreadCachedInt::increment: je_nallocx(size) from
\* memAllocated, -je_sallocx(ptr) from memDeallocated, 0 from threadUp and
\* clientRegistered
MemAllocatedSizeMut(t) == thr[t].size
MemAllocatedSize(t) == je_nallocx(thr[t].size)
MemDeallocatedSizeMut(t) == thr[t].size
MemDeallocatedSize(t) == je_sallocx(thr[t].ptr)
IncAmount(t) ==
    CASE thr[t].phase = "alloc" -> MemAllocatedSize(t)
      [] thr[t].phase = "dealloc" -> -MemDeallocatedSize(t)
      [] OTHER -> 0

\* where a call goes on after ThreadCachedInt::increment returned
AfterIncrement(f) ==
    CASE f.op \in MemOps -> "readFast"
      [] f.op = "switchToClient" -> "install"
      [] OTHER -> "rfar_xchg"

\* where an allocation entry point goes on after memAllocated/memDeallocated:
\* realloc charges after it credited, everything else calls the allocator
AfterMem(f) ==
    IF f.op = "realloc" /\ f.phase = "dealloc"
    THEN [f EXCEPT !.pc = "inc", !.phase = "alloc", !.acc = 0]
    ELSE [f EXCEPT !.pc = "je", !.phase = "none", !.acc = 0]

InCap(x) == Abs(x) <= ByteCap

\* `cache_.get()` of ThreadCachedInt::increment: the calling thread's IntCache
\* is there, or is created under the ThreadLocal meta lock that
\* accessAllThreads() holds
CacheReadyMut(t, c) ==
    (c.exists \/ accessLock = NoThread) /\ clientsLock \in {NoThread, t}
CacheReady(t, c) == c.exists \/ accessLock = NoThread

\* IntCache::increment(inc) on the calling thread's IntCache
Increment(t) ==
    /\ thr[t].pc = "inc"
    /\ LET i == ChainIndex(t)
           c == taCache[i][t]
           v == IF c.exists /\ ~c.reset THEN c.val + IncAmount(t)
                ELSE IncAmount(t)
           n == c.numUpdates + 1
       IN /\ CacheReady(t, c)
          /\ InCap(v)
          /\ taCache' = [taCache EXCEPT ![i][t] =
                 [exists |-> TRUE, val |-> v, reset |-> FALSE,
                  numUpdates |-> n]]
          /\ thr' = [thr EXCEPT ![t].pc =
                 IF n > CacheSize THEN "flush1" ELSE AfterIncrement(thr[t])]
    /\ UNCHANGED <<registryVars, switchVars, taTarget, accessLock,
                   threadThreshold, clientEstimatedMemory, memVars>>
    /\ UNCHANGED callerVars

\* IntCache::flush, first half: parent_->target_.fetch_add(val_)
Flush1(t) ==
    /\ thr[t].pc = "flush1"
    /\ LET i == ChainIndex(t)
       IN /\ InCap(taTarget[i] + taCache[i][t].val)
          /\ taTarget' = [taTarget EXCEPT ![i] = @ + taCache[i][t].val]
    /\ thr' = [thr EXCEPT ![t].pc = "flush2"]
    /\ UNCHANGED <<registryVars, switchVars, taCache, accessLock,
                   threadThreshold, clientEstimatedMemory, memVars>>
    /\ UNCHANGED callerVars

\* IntCache::flush, second half: val_.store(0); numUpdates_ = 0
Flush2(t) ==
    /\ thr[t].pc = "flush2"
    /\ taCache' = [taCache EXCEPT ![ChainIndex(t)][t].val = 0,
                                  ![ChainIndex(t)][t].numUpdates = 0]
    /\ thr' = [thr EXCEPT ![t].pc = AfterIncrement(thr[t])]
    /\ UNCHANGED <<registryVars, switchVars, taTarget, accessLock,
                   threadThreshold, clientEstimatedMemory, memVars>>
    /\ UNCHANGED callerVars

\* threadCounter.readFast(): the argument of maybeUpdateEstimatedTotalMemUsed
ReadFast(t) ==
    /\ thr[t].pc = "readFast"
    /\ thr' = [thr EXCEPT ![t].pc = "maybe", ![t].acc = taTarget[ChainIndex(t)]]
    /\ UNCHANGED <<registryVars, switchVars, trackerVars, memVars>>
    /\ UNCHANGED callerVars

\* `std::abs(value) > threadThreshold[index]`
OverThresholdMut(value, index) == Abs(value) >= threadThreshold[index]
OverThreshold(value, index) == Abs(value) > threadThreshold[index]

\* maybeUpdateEstimatedTotalMemUsed: the comparison
MaybeUpdate(t) ==
    /\ thr[t].pc = "maybe"
    /\ thr' = [thr EXCEPT ![t] =
           IF OverThreshold(thr[t].acc, ChainIndex(t))
           THEN [thr[t] EXCEPT !.pc = "xchg", !.acc = 0]
           ELSE AfterMem(thr[t])]
    /\ UNCHANGED <<registryVars, switchVars, trackerVars, memVars>>
    /\ UNCHANGED callerVars

\* maybeUpdateEstimatedTotalMemUsed: threadTracker.readFastAndReset()
Exchange(t) ==
    /\ thr[t].pc = "xchg"
    /\ thr' = [thr EXCEPT ![t].pc = "add", ![t].acc = taTarget[ChainIndex(t)]]
    /\ taTarget' = [taTarget EXCEPT ![ChainIndex(t)] = 0]
    /\ UNCHANGED <<registryVars, switchVars, taCache, accessLock,
                   threadThreshold, clientEstimatedMemory, memVars>>
    /\ UNCHANGED callerVars

\* maybeUpdateEstimatedTotalMemUsed: clientEstimatedMemory[index]->fetch_add
FoldAdd(t) ==
    /\ thr[t].pc = "add"
    /\ InCap(clientEstimatedMemory[ChainIndex(t)] + thr[t].acc)
    /\ clientEstimatedMemory' =
           [clientEstimatedMemory EXCEPT ![ChainIndex(t)] = @ + thr[t].acc]
    /\ thr' = [thr EXCEPT ![t] = AfterMem(thr[t])]
    /\ UNCHANGED <<registryVars, switchVars, taTarget, taCache, accessLock,
                   threadThreshold, memVars>>
    /\ UNCHANGED callerVars

\* ------------------------------------------------------ allocation façade
FreePtrs == {p \in Ptrs : heap[p] = 0}

\* threads inside an entry point that will take a fresh block
Allocating ==
    {u \in Threads : /\ thr[u].pc \notin {"idle", "ret"}
                     /\ \/ thr[u].op \in {"malloc", "calloc"}
                        \/ thr[u].op = "realloc" /\ thr[u].ptr = NULL}

\* blocks some running call operates on
Held == {thr[u].ptr : u \in Threads} \ {NULL}

LivePtrs == {p \in Ptrs : heap[p] # 0} \ Held

LowestFree == CHOOSE p \in FreePtrs : \A q \in FreePtrs : p <= q

\* first step of malloc/calloc/realloc(NULL, n): memAllocated is a no-op for a
\* thread with no client
EnterAlloc(t, op, nmemb, size) ==
    /\ thr[t].pc = "idle"
    /\ Cardinality(FreePtrs) > Cardinality(Allocating)
    /\ thr' = [thr EXCEPT ![t] =
           [IdleFrame EXCEPT !.op = op, !.nmemb = nmemb, !.size = size,
                !.pc = IF Tracked(CurrentIndex(t)) THEN "inc" ELSE "je",
                !.phase = IF Tracked(CurrentIndex(t)) THEN "alloc"
                          ELSE "none"]]
    /\ UNCHANGED <<registryVars, switchVars, trackerVars, memVars>>

\* `if (size == 0) size = 8;` of malloc and realloc
NormSizeMut(size) == size
NormSize(size) == IF size = 0 THEN 8 ELSE size

\* JEArenaMalloc::malloc(size)
CallMalloc(t, size) == EnterAlloc(t, "malloc", 1, NormSize(size))

\* JEArenaMalloc::calloc(nmemb, size): memAllocated(c.index, size)
CallCalloc(t, nmemb, size) == EnterAlloc(t, "calloc", nmemb, size)

\* JEArenaMalloc::realloc(ptr, size)
CallRealloc(t, ptr, size) ==
    IF ptr = NULL
    THEN EnterAlloc(t, "realloc", 1, NormSize(size))
    ELSE /\ thr[t].pc = "idle"
         /\ ptr \in LivePtrs
         /\ thr' = [thr EXCEPT ![t] =
                [IdleFrame EXCEPT !.op = "realloc", !.ptr = ptr, !.nmemb = 1,
                     !.size = NormSize(size),
                     !.pc = IF Tracked(CurrentIndex(t)) THEN "inc" ELSE "je",
                     !.phase = IF Tracked(CurrentIndex(t)) THEN "dealloc"
                               ELSE "none"]]
         /\ UNCHANGED <<registryVars, switchVars, trackerVars, memVars>>

\* JEArenaMalloc::free(ptr) and JEArenaMalloc::sized_free(ptr, size)
EnterFree(t, op, ptr, size) ==
    /\ thr[t].pc = "idle"
    /\ ptr = NULL \/ ptr \in LivePtrs
    /\ thr' = [thr EXCEPT ![t] =
           IF ptr = NULL
           THEN [IdleFrame EXCEPT !.op = op, !.pc = "ret"]
           ELSE [IdleFrame EXCEPT !.op = op, !.ptr = ptr, !.size = size,
                     !.pc = IF Tracked(CurrentIndex(t)) THEN "inc" ELSE "je",
                     !.phase = IF Tracked(CurrentIndex(t)) THEN "dealloc"
                               ELSE "none"]]
    /\ UNCHANGED <<registryVars, switchVars, trackerVars, memVars>>

CallFree(t, ptr) == EnterFree(t, "free", ptr, 0)

CallSizedFree(t, ptr, size) == EnterFree(t, "sized_free", ptr, size)

\* a size je_sdallocx accepts for the block: anything from the size asked
\* for up to the size of its class
FitSize(ptr) == IF ptr = NULL THEN 0 ELSE heap[ptr]

\* the sizes the block can have after the jemalloc call of frame f (0: no
\* block).  je_mallocx and je_rallocx are undefined for a size of 0: the
\* request is served from the smallest class, or nothing is returned and
\* je_rallocx has released the block
je_served(f) ==
    IF f.op \in {"free", "sized_free"} THEN {0}
    ELSE IF f.nmemb * f.size = 0 THEN {0, je_nallocx(0)}
    ELSE {je_nallocx(f.nmemb * f.size)}

\* the jemalloc call that ends every entry point: je_mallocx, je_rallocx,
\* je_dallocx, je_sdallocx
AllocatorCall(t) ==
    /\ thr[t].pc = "je"
    /\ \E sz \in je_served(thr[t]) :
       LET f == thr[t]
           fresh == f.op \in {"malloc", "calloc"}
                    \/ (f.op = "realloc" /\ f.ptr = NULL)
           p == IF fresh THEN LowestFree ELSE f.ptr
       IN /\ heap' = [heap EXCEPT ![p] = sz]
          /\ blockArena' = [blockArena EXCEPT ![p] =
                 IF sz = 0 THEN 0
                 ELSE IF fresh THEN FlagsArena(currentClient[t].mallocFlags)
                 ELSE @]
          /\ thr' = [thr EXCEPT ![t] =
                 [IdleFrame EXCEPT !.op = f.op, !.pc = "ret",
                      !.res = IF sz = 0 THEN NULL ELSE p]]
    /\ UNCHANGED <<registryVars, switchVars, trackerVars, totals>>
    /\ UNCHANGED callerVars

\* the call returns to its caller
Return(t) ==
    /\ thr[t].pc = "ret"
    /\ thr' = [thr EXCEPT ![t] = IdleFrame]
    /\ UNCHANGED <<registryVars, switchVars, trackerVars, memVars>>

\* ------------------------------------------------- readFullAndReset
\* where a call goes on after ThreadCachedInt::readFullAndReset returned
AfterReadFull(f) == IF f.op = "getPreciseAllocated" THEN "gp_add"
                    ELSE "cr_threshold"

\* readFullAndReset: accessAllThreads() is taken and target_ exchanged with 0
ReadFullExchange(t) ==
    /\ thr[t].pc = "rfar_xchg"
    /\ accessLock = NoThread
    /\ LET i == ChainIndex(t)
           todo == {u \in Threads : taCache[i][u].exists}
       IN /\ taTarget' = [taTarget EXCEPT ![i] = 0]
          /\ accessLock' = IF todo = {} THEN NoThread ELSE t
          /\ thr' = [thr EXCEPT ![t].acc = taTarget[i], ![t].todo = todo,
                 ![t].pc = IF todo = {} THEN AfterReadFull(thr[t])
                           ELSE "rfar_read"]
    /\ UNCHANGED <<registryVars, switchVars, taCache, threadThreshold,
                   clientEstimatedMemory, memVars>>
    /\ UNCHANGED callerVars

\* readFullAndReset, one IntCache: `if (!cache.reset_) ret += cache.val_`
ReadFullRead(t) ==
    /\ thr[t].pc = "rfar_read"
    /\ \E u \in thr[t].todo :
         LET c == taCache[ChainIndex(t)][u]
             rest == thr[t].todo \ {u}
         IN IF c.reset
            THEN /\ thr' = [thr EXCEPT ![t].todo = rest,
                        ![t].pc = IF rest = {} THEN AfterReadFull(thr[t])
                                  ELSE "rfar_read"]
                 /\ accessLock' = IF rest = {} THEN NoThread ELSE accessLock
            ELSE /\ thr' = [thr EXCEPT ![t].acc = @ + c.val, ![t].cur = u,
                        ![t].pc = "rfar_mark"]
                 /\ UNCHANGED accessLock
    /\ UNCHANGED <<registryVars, switchVars, taTarget, taCache,
                   threadThreshold, clientEstimatedMemory, memVars>>
    /\ UNCHANGED callerVars

\* readFullAndReset, the same IntCache: `cache.reset_.store(true)`
ReadFullMark(t) ==
    /\ thr[t].pc = "rfar_mark"
    /\ LET rest == thr[t].todo \ {thr[t].cur}
       IN /\ taCache' = [taCache EXCEPT
                 ![ChainIndex(t)][thr[t].cur].reset = TRUE]
          /\ thr' = [thr EXCEPT ![t].todo = rest, ![t].cur = NoThread,
                 ![t].pc = IF rest = {} THEN AfterReadFull(thr[t])
                           ELSE "rfar_read"]
          /\ accessLock' = IF rest = {} THEN NoThread ELSE accessLock
    /\ UNCHANGED <<registryVars, switchVars, taTarget, threadThreshold,
                   clientEstimatedMemory, memVars>>
    /\ UNCHANGED callerVars

\* ----------------------------------------------------------- queries
\* handles callers can hold: an index is handed out once its first
\* registerClient has returned
Issued ==
    {i \in Indices :
        /\ clients[i].arena # 0
        /\ ~\E u \in Threads : thr[u].h = i /\ thr[u].newArena}

\* JEArenaThreadLocalTracker::getPreciseAllocated(client): entry
CallGetPreciseAllocated(t, i) ==
    /\ thr[t].pc = "idle"
    /\ i \in Issued
    /\ thr' = [thr EXCEPT ![t] =
           [IdleFrame EXCEPT !.op = "getPreciseAllocated", !.h = i,
                !.pc = "rfar_xchg"]]
    /\ UNCHANGED <<registryVars, switchVars, trackerVars, memVars>>

\* getPreciseAllocated: clientEstimatedMemory[index]->fetch_add(...)
PreciseAdd(t) ==
    /\ thr[t].pc = "gp_add"
    /\ InCap(clientEstimatedMemory[thr[t].h] + thr[t].acc)
    /\ clientEstimatedMemory' =
           [clientEstimatedMemory EXCEPT ![thr[t].h] = @ + thr[t].acc]
    /\ thr' = [thr EXCEPT ![t].pc = "gp_load", ![t].acc = 0]
    /\ UNCHANGED <<registryVars, switchVars, taTarget, taCache, accessLock,
                   threadThreshold, memVars>>
    /\ UNCHANGED callerVars

\* getPreciseAllocated: the load and the clamped return value; acc keeps the
\* signed value that was loaded
PreciseLoad(t) ==
    /\ thr[t].pc = "gp_load"
    /\ thr' = [thr EXCEPT ![t].pc = "ret",
           ![t].acc = clientEstimatedMemory[thr[t].h],
           ![t].res = ClampUnsigned(clientEstimatedMemory[thr[t].h])]
    /\ UNCHANGED <<registryVars, switchVars, trackerVars, memVars>>
    /\ UNCHANGED callerVars

\* `clientEstimatedMemory[client.index]->load()` of getEstimatedAllocated
EstimatedLoadMut(i) == clientEstimatedMemory[i] + taTarget[i]
EstimatedLoad(i) == clientEstimatedMemory[i]

\* JEArenaThreadLocalTracker::getEstimatedAllocated(client)
GetEstimatedAllocated(t, i) ==
    /\ thr[t].pc = "idle"
    /\ i \in Issued
    /\ thr' = [thr EXCEPT ![t] =
           [IdleFrame EXCEPT !.op = "getEstimatedAllocated", !.h = i,
                !.pc = "ret", !.acc = EstimatedLoad(i),
                !.res = ClampUnsigned(EstimatedLoad(i))]]
    /\ UNCHANGED <<registryVars, switchVars, trackerVars, memVars>>

\* JEArenaThreadLocalTracker::updateClientThreshold(client)
UpdateClientThreshold(t, i, threshold) ==
    /\ thr[t].pc = "idle"
    /\ i \in Issued
    /\ threadThreshold' = [threadThreshold EXCEPT ![i] = threshold]
    /\ thr' = [thr EXCEPT ![t] =
           [IdleFrame EXCEPT !.op = "updateClientThreshold", !.h = i,
                !.pc = "ret"]]
    /\ UNCHANGED <<registryVars, switchVars, taTarget, taCache, accessLock,
                   clientEstimatedMemory, memVars>>

\* ---------------------------------------------------------- registry
\* `for (uint8_t index = 0; index < lockedClients->size(); index++)`
ScanRangeMut == 0..(ArenaMallocMaxClients - 2)
ScanRange == 0..(ArenaMallocMaxClients - 1)

\* `if (!c.used)` of unregisterClient and unregisterCurrentClient
SlotInUseMut(c) == TRUE
SlotInUse(c) == c.used

\* the slots `if (!client.used)` of the scan is true of
FreeSlots == {i \in ScanRange : ~clients[i].used}

\* the slot the scan of registerClient stops at
FirstFreeMut == CHOOSE i \in ScanRange : \A j \in ScanRange : i <= j
FirstFree == CHOOSE i \in FreeSlots : \A j \in FreeSlots : i <= j

\* clientRegistered: clientEstimatedMemory[index]->store(0)
RegisteredEstimateMut(old) == old
RegisteredEstimate(old) == 0

\* `threadCache && tcacheEnabled`: "tcacheEnabled overrides" any client's wish
TCacheAllowedMut(threadCache) == threadCache
TCacheAllowed(threadCache) == threadCache /\ tcacheEnabled

\* JEArenaMalloc::registerClient(threadCache): clients.wlock(), the scan, and
\* clientEstimatedMemory[index]->store(0) of clientRegistered; with no free
\* slot it throws and the lock is dropped
CallRegisterClient(t, threadCache) ==
    /\ thr[t].pc = "idle"
    /\ clientsLock = NoThread
    /\ IF FreeSlots = {}
       THEN /\ thr' = [thr EXCEPT ![t] =
                   [IdleFrame EXCEPT !.op = "registerClient", !.pc = "ret",
                        !.err = "ExhaustedClients"]]
            /\ UNCHANGED <<registryVars, clientEstimatedMemory>>
       ELSE LET i == FirstFree
                make == clients[i].arena = 0
            IN /\ clients' = [clients EXCEPT ![i] =
                      [used |-> TRUE,
                       arena |-> IF make THEN arenasCreated + 1 ELSE @.arena]]
               /\ arenasCreated' = IF make THEN arenasCreated + 1
                                   ELSE arenasCreated
               /\ clientsLock' = t
               /\ clientEstimatedMemory' =
                      [clientEstimatedMemory EXCEPT
                           ![i] = RegisteredEstimate(@)]
               /\ thr' = [thr EXCEPT ![t] =
                      [IdleFrame EXCEPT !.op = "registerClient", !.h = i,
                           !.hint = threadCache,
                           !.tc = TCacheAllowed(threadCache),
                           !.newArena = make, !.pc = "inc"]]
    /\ UNCHANGED <<switchVars, taTarget, taCache, accessLock,
                   threadThreshold, memVars>>

\* clientRegistered: updateClientThreshold(client) stores the
\* estimateUpdateThreshold of the handle being returned
RegisteredThresholdMut(old) == old
RegisteredThreshold(old) == DefaultEstimateUpdateThreshold

\* clientRegistered: updateClientThreshold(client), then registerClient
\* returns newClient and the lock is dropped
RegisterReturn(t) ==
    /\ thr[t].pc = "cr_threshold"
    /\ threadThreshold' =
           [threadThreshold EXCEPT ![thr[t].h] = RegisteredThreshold(@)]
    /\ clientsLock' = NoThread
    /\ thr' = [thr EXCEPT ![t] =
           [IdleFrame EXCEPT !.op = "registerClient", !.h = thr[t].h,
                !.hint = thr[t].hint, !.tc = thr[t].tc,
                !.res = clients[thr[t].h].arena, !.pc = "ret"]]
    /\ UNCHANGED <<clients, arenasCreated, switchVars, taTarget, taCache,
                   accessLock, clientEstimatedMemory, memVars>>
    /\ UNCHANGED callerVars

\* Client::reset(arena)
ClientResetMut(c) == [used |-> FALSE, arena |-> 0]
ClientReset(c) == [used |-> FALSE, arena |-> c.arena]

\* JEArenaMalloc::unregisterClient(client)
UnregisterClient(t, i) ==
    /\ thr[t].pc = "idle"
    /\ clientsLock = NoThread
    /\ IF ~SlotInUse(clients[i])
       THEN /\ thr' = [thr EXCEPT ![t] =
                   [IdleFrame EXCEPT !.op = "unregisterClient", !.h = i,
                        !.pc = "ret", !.err = "InvalidHandle"]]
            /\ UNCHANGED clients
       ELSE /\ clients' = [clients EXCEPT ![i] = ClientReset(@)]
            /\ thr' = [thr EXCEPT ![t] =
                   [IdleFrame EXCEPT !.op = "unregisterClient", !.h = i,
                        !.pc = "ret"]]
    /\ UNCHANGED <<clientsLock, arenasCreated, switchVars, trackerVars, memVars>>

\* JEArenaMalloc::unregisterCurrentClient()
UnregisterCurrentClient(t) ==
    /\ thr[t].pc = "idle"
    /\ LET i == CurrentIndex(t)
       IN IF i = NoClientIndex
          THEN /\ thr' = [thr EXCEPT ![t] =
                      [IdleFrame EXCEPT !.op = "unregisterCurrentClient",
                           !.pc = "ret", !.err = "NoCurrentClient"]]
               /\ UNCHANGED clients
          ELSE /\ clientsLock = NoThread
               /\ IF ~SlotInUse(clients[i])
                  THEN /\ thr' = [thr EXCEPT ![t] =
                              [IdleFrame EXCEPT
                                   !.op = "unregisterCurrentClient", !.h = i,
                                   !.pc = "ret", !.err = "NotInUse"]]
                       /\ UNCHANGED clients
                  ELSE /\ clients' = [clients EXCEPT ![i] = ClientReset(@)]
                       /\ thr' = [thr EXCEPT ![t] =
                              [IdleFrame EXCEPT
                                   !.op = "unregisterCurrentClient", !.h = i,
                                   !.pc = "ret"]]
    /\ UNCHANGED <<clientsLock, arenasCreated, switchVars, trackerVars, memVars>>

\* ---------------------------------------------------------- switching
\* an ArenaMallocClient as a caller hands it to switchToClient
Handle(arena, index, threadCache) ==
    [arena |-> arena, index |-> index, threadCache |-> threadCache]

\* `if (client.index == NoClientIndex)` of switchToClient
NoClientHandleMut(client) == client.arena = 0
NoClientHandle(client) == client.index = NoClientIndex

\* switchToClient(client) with a handle of no client: the flags follow the
\* thread cache settings and name no arena
SwitchNoClient(t, op, threadCache) ==
    /\ thr[t].pc = "idle"
    /\ currentClient' = [currentClient EXCEPT ![t] =
           [mallocFlags |-> IF TCacheAllowed(threadCache) THEN 0
                            ELSE MALLOCX_TCACHE_NONE,
            index |-> NoClientIndex]]
    /\ thr' = [thr EXCEPT ![t] =
           [IdleFrame EXCEPT !.op = op, !.hint = threadCache, !.pc = "ret"]]
    /\ UNCHANGED <<registryVars, tcacheEnabled, tcacheVars, trackerVars,
                   memVars>>

\* JEArenaMalloc::switchToClient(client) with client.index == NoClientIndex
SwitchToNoClient(t, threadCache) ==
    SwitchNoClient(t, "switchFromClient", threadCache)

\* JEArenaMalloc::switchFromClient()
SwitchFromClientMut(t) == SwitchToNoClient(t, FALSE)
SwitchFromClient(t) == SwitchToNoClient(t, tcacheEnabled)

\* `currentClient.mallocFlags = 0; currentClient.index = NoClientIndex;`
\* before threadUp(client.index)
WarmUpClientMut(t) == currentClient[t]
WarmUpClient(t) == [mallocFlags |-> 0, index |-> NoClientIndex]

\* `if (tcache == 0)` of switchToClient: the index has no tcache on this
\* thread yet
NoTCacheYetMut(tcache) == TRUE
NoTCacheYet(tcache) == tcache = 0

\* switchToClient(client), client.index != NoClientIndex: with thread caching
\* wished and enabled the thread's ThreadLocalData is looked up (and made on
\* first use) and the tcache of the index is looked up or made; the thread
\* is left with no client while threadUp(client.index) runs
SwitchToIndex(t, client) ==
    /\ thr[t].pc = "idle"
    /\ LET i == client.index
           tc == TCacheAllowed(client.threadCache)
           make == tc /\ NoTCacheYet(threadLocalData[t][i])
       IN /\ threadLocalData' =
                 IF make
                 THEN [threadLocalData EXCEPT ![t][i] = makeTCache(t, i)]
                 ELSE threadLocalData
          /\ tcaches' =
                 IF make
                 THEN [tcaches EXCEPT ![makeTCache(t, i)].created = @ + 1]
                 ELSE tcaches
          /\ tld' = IF tc THEN [tld EXCEPT ![t] = "made"] ELSE tld
          /\ thr' = [thr EXCEPT ![t] =
                 [IdleFrame EXCEPT !.op = "switchToClient", !.h = i,
                      !.arena = client.arena,
                      !.hint = client.threadCache, !.tc = tc, !.pc = "inc"]]
    /\ currentClient' = [currentClient EXCEPT ![t] = WarmUpClient(t)]
    /\ UNCHANGED <<registryVars, tcacheEnabled, trackerVars, memVars>>

\* JEArenaMalloc::switchToClient(client) with any handle
SwitchToClient(t, client) ==
    IF NoClientHandle(client)
    THEN SwitchNoClient(t, "switchToClient", client.threadCache)
    ELSE SwitchToIndex(t, client)

\* JEArenaMalloc::switchToClient(client) with the handle registerClient
\* returned for index i, its threadCache set as the caller wishes
CallSwitchToClient(t, i, threadCache) ==
    /\ i \in Issued
    /\ SwitchToIndex(t, Handle(clients[i].arena, i, threadCache))

\* switchToClient: the flags and the index are installed
SwitchInstall(t) ==
    /\ thr[t].pc = "install"
    /\ LET i == thr[t].h
           tcacheFlags == IF thr[t].tc
                          THEN MALLOCX_TCACHE(threadLocalData[t][i])
                          ELSE MALLOCX_TCACHE_NONE
       IN currentClient' = [currentClient EXCEPT ![t] =
              [mallocFlags |-> MALLOCX_ARENA(thr[t].arena) + tcacheFlags,
               index |-> i]]
    /\ thr' = [thr EXCEPT ![t] =
           [IdleFrame EXCEPT !.op = "switchToClient", !.h = thr[t].h,
                !.arena = thr[t].arena, !.hint = thr[t].hint,
                !.tc = thr[t].tc, !.pc = "ret"]]
    /\ UNCHANGED <<registryVars, tcacheEnabled, tcacheVars, trackerVars,
                   memVars>>
    /\ UNCHANGED callerVars

\* JEArenaMalloc::setTCacheEnabled(value)
SetTCacheEnabled(t, value) ==
    /\ thr[t].pc = "idle"
    /\ tcacheEnabled' = value
    /\ thr' = [thr EXCEPT ![t] =
           [IdleFrame EXCEPT !.op = "setTCacheEnabled", !.pc = "ret"]]
    /\ UNCHANGED <<registryVars, currentClient, tcacheVars, trackerVars,
                   memVars>>

\* the tcaches ThreadLocalDataDestroy hands to tcache.destroy: `if (td.tcache)`
\* for every entry of the thread's clientDataArray
DestroyedMut(t) == {}
Destroyed(t) == {threadLocalData[t][i] : i \in Indices} \ {0}

\* threads that have not exited
Alive == {t \in Threads : tld[t] \in {"null", "made"}}

\* The thread exits.  If it has a ThreadLocalData, the deleter of its
\* unique_ptr destroys every tcache recorded in it and frees the record with
\* je_dallocx(tld, 0); a thread that never made one has nothing to delete.
\* (The thread's IntCaches are folly's own thread-locals, not part of this.)
ThreadExit(t) ==
    /\ t \in Alive
    /\ thr[t].pc = "idle"
    /\ IF tld[t] = "made"
       THEN /\ tcaches' = [id \in TCacheIds |->
                   IF id \in Destroyed(t)
                   THEN [tcaches[id] EXCEPT !.destroyed = @ + 1]
                   ELSE tcaches[id]]
            /\ tld' = [tld EXCEPT ![t] = "freed"]
       ELSE /\ tld' = [tld EXCEPT ![t] = "gone"]
            /\ UNCHANGED tcaches
    /\ UNCHANGED <<registryVars, tcacheEnabled, currentClient,
                   threadLocalData, trackerVars, memVars, thr>>
    /\ UNCHANGED callerVars

\* ------------------------------------------------------ total counters
\* JEArenaMalloc::getAllocated(int arena): stats.arenas.<arena>.small.allocated
\* + stats.arenas.<arena>.large.allocated after an epoch refresh, the bytes of
\* the live blocks of the arena
RECURSIVE LiveBytes(_, _)
LiveBytes(arena, ps) ==
    IF ps = {} THEN 0
    ELSE LET p == CHOOSE x \in ps : TRUE
         IN (IF heap[p] # 0 /\ blockArena[p] = arena THEN heap[p] ELSE 0)
            + LiveBytes(arena, ps \ {p})

getAllocatedMut(arena) == 0
getAllocated(arena) == LiveBytes(arena, Ptrs)

\* registerTotalCounter(client, counterAddress): the address is stored in the
\* client's slot under the writer lock; nothing is written through it
RegisterTotalCounter(t, i) ==
    /\ thr[t].pc = "idle"
    /\ clientsLock = NoThread
    /\ i \in Issued
    /\ totals' = [totals EXCEPT ![i].registered = TRUE]
    /\ thr' = [thr EXCEPT ![t] =
           [IdleFrame EXCEPT !.op = "registerTotalCounter", !.h = i,
                !.pc = "ret"]]
    /\ UNCHANGED <<registryVars, switchVars, trackerVars, heap, blockArena>>

\* updateTotalCounters(): under the writer lock, every slot in use that has
\* a sink gets getAllocated(slot.arena) written into it
UpdateTotalCounters(t) ==
    /\ thr[t].pc = "idle"
    /\ clientsLock = NoThread
    /\ totals' = [i \in Indices |->
           IF clients[i].used /\ totals[i].registered
           THEN [totals[i] EXCEPT !.value = getAllocated(clients[i].arena)]
           ELSE totals[i]]
    /\ thr' = [thr EXCEPT ![t] =
           [IdleFrame EXCEPT !.op = "updateTotalCounters", !.pc = "ret"]]
    /\ UNCHANGED <<registryVars, switchVars, trackerVars, heap, blockArena>>

\* ------------------------------------------------------ the callers
\* The code under test is driven by its callers.  A caller either makes calls
\* freely (counted by callsMade) or follows a script: prog[t] holds the calls
\* thread t still has to make, obs[t] what its finished calls returned.

AllIdle == \A t \in Threads : thr[t].pc = "idle"

\* the value getPreciseAllocated(i) would load if it ran alone from here:
\* the aggregate, target_, and every IntCache not marked reset_
RECURSIVE SumCaches(_, _)
SumCaches(i, ts) ==
    IF ts = {} THEN 0
    ELSE LET u == CHOOSE x \in ts : TRUE
             c == taCache[i][u]
         IN (IF c.exists /\ ~c.reset THEN c.val ELSE 0)
            + SumCaches(i, ts \ {u})

SignedTotal(i) ==
    clientEstimatedMemory[i] + taTarget[i] + SumCaches(i, Threads)

\* a scripted call: op, handle h (or hFrom: the position in obs of the
\* registerClient that returned it), sizes m and n, and pFrom: the position in
\* obs of the call that returned the block (0: nullptr)
D(op, h, hFrom, m, n, pFrom) ==
    [op |-> op, h |-> h, hFrom |-> hFrom, m |-> m, n |-> n, pFrom |-> pFrom,
     pOf |-> NoThread]

\* a scripted call on a block another thread, pOf, was handed
DOf(op, h, n, pOf, pFrom) ==
    [D(op, h, 0, 0, n, pFrom) EXCEPT !.pOf = pOf]

HandleOf(t, d) == IF d.hFrom = 0 THEN d.h ELSE obs[t][d.hFrom].h
PtrOf(t, d) ==
    IF d.pFrom = 0 THEN NULL
    ELSE obs[IF d.pOf = NoThread THEN t ELSE d.pOf][d.pFrom].res

Do(t, d) ==
    CASE d.op = "malloc" -> CallMalloc(t, d.n)
      [] d.op = "calloc" -> CallCalloc(t, d.m, d.n)
      [] d.op = "realloc" -> CallRealloc(t, PtrOf(t, d), d.n)
      [] d.op = "free" -> CallFree(t, PtrOf(t, d))
      [] d.op = "sized_free" -> CallSizedFree(t, PtrOf(t, d), d.n)
      [] d.op = "getPreciseAllocated" ->
             CallGetPreciseAllocated(t, HandleOf(t, d))
      [] d.op = "getEstimatedAllocated" ->
             GetEstimatedAllocated(t, HandleOf(t, d))
      [] d.op = "updateClientThreshold" ->
             UpdateClientThreshold(t, HandleOf(t, d), d.n)
      [] d.op = "registerClient" -> CallRegisterClient(t, FALSE)
      [] d.op = "unregisterClient" -> UnregisterClient(t, HandleOf(t, d))
      [] d.op = "switchToClient" ->
             CallSwitchToClient(t, HandleOf(t, d), FALSE)
      [] d.op = "switchFromClient" -> SwitchFromClient(t)

\* the handles callers still hold after a call: Client::reset of a slot takes
\* back the handle of its index
HandlesKept == SelectSeq(handles, LAMBDA h : clients'[h.index].used)

\* a thread with a script makes the next call of it
ScriptCall(t) ==
    /\ prog[t] # <<>>
    /\ Do(t, Head(prog[t]))
    /\ handles' = HandlesKept
    /\ UNCHANGED <<callsMade, script, prog, obs, counterVars>>

\* what the caller keeps of a finished call
Observe(f) == [op |-> f.op, res |-> f.res, acc |-> f.acc, h |-> f.h,
               err |-> f.err]

\* a call returns; a scripted one is ticked off and its result kept, and the
\* ArenaMallocClient registerClient returned is held by the caller
Ret(t) ==
    /\ Return(t)
    /\ handles' = IF thr[t].op = "registerClient" /\ thr[t].err = "none"
                  THEN Append(handles,
                              [index |-> thr[t].h, arena |-> thr[t].res])
                  ELSE handles
    /\ IF prog[t] # <<>>
       THEN /\ prog' = [prog EXCEPT ![t] = Tail(@)]
            /\ obs' = [obs EXCEPT ![t] = Append(@, Observe(thr[t]))]
       ELSE UNCHANGED <<prog, obs>>
    /\ UNCHANGED <<callsMade, script, counterVars>>

\* a call made freely, by any thread at any time
Free(A) ==
    /\ script.kind = "none"
    /\ callsMade < MaxCalls
    /\ A
    /\ callsMade' = callsMade + 1
    /\ handles' = HandlesKept
    /\ UNCHANGED <<script, prog, obs, counterVars>>

\* a call made while no other call is running
Hist(A) ==
    /\ script.kind = "none"
    /\ AllIdle
    /\ callsMade < MaxHistory
    /\ A
    /\ callsMade' = callsMade + 1
    /\ handles' = HandlesKept
    /\ UNCHANGED <<script, prog, obs, counterVars>>

\* -------------------------------------------------------- the system
\* the steps inside a call; none of them touches the caller's side
Step(t) ==
    \/ Increment(t)
    \/ Flush1(t)
    \/ Flush2(t)
    \/ ReadFast(t)
    \/ MaybeUpdate(t)
    \/ Exchange(t)
    \/ FoldAdd(t)
    \/ AllocatorCall(t)
    \/ ReadFullExchange(t)
    \/ ReadFullRead(t)
    \/ ReadFullMark(t)
    \/ PreciseAdd(t)
    \/ PreciseLoad(t)
    \/ RegisterReturn(t)
    \/ SwitchInstall(t)

\* sizes handed to calloc (nallocx and mallocx are undefined for 0)
CallocSizes == ReqSizes \ {0}

\* Threads call into the facade freely and concurrently.
Next ==
    \E t \in Threads :
        \/ \E n \in ReqSizes : Free(CallMalloc(t, n))
        \/ \E m \in ReqCounts, n \in CallocSizes : Free(CallCalloc(t, m, n))
        \/ \E p \in Ptrs \cup {NULL}, n \in ReqSizes :
               Free(CallRealloc(t, p, n))
        \/ \E p \in Ptrs \cup {NULL} : Free(CallFree(t, p))
        \/ \E p \in Ptrs \cup {NULL} : Free(CallSizedFree(t, p, FitSize(p)))
        \/ \E i \in Indices : Free(CallGetPreciseAllocated(t, i))
        \/ \E i \in Indices : Free(GetEstimatedAllocated(t, i))
        \/ \E i \in Indices, th \in Thresholds :
               Free(UpdateClientThreshold(t, i, th))
        \/ Free(CallRegisterClient(t, FALSE))
        \/ \E i \in Indices : Free(UnregisterClient(t, i))
        \/ \E i \in Indices : Free(CallSwitchToClient(t, i, FALSE))
        \/ Free(SwitchFromClient(t))
        \/ Step(t)
        \/ Ret(t)

Spec == Init /\ [][Next]_vars

\* ------------------------------------------------------ scenarios
\* handles of registered clients a caller can hold
Registered == {i \in Issued : clients[i].used}

\* TEST(ArenaMalloc, basicUsage): sample, allocate inside the client, sample,
\* release inside the client, sample
BracketProg(i, n) ==
    << D("getPreciseAllocated", i, 0, 0, 0, 0),
       D("switchToClient", i, 0, 0, 0, 0),
       D("malloc", i, 0, 1, n, 0),
       D("switchFromClient", i, 0, 0, 0, 0),
       D("getPreciseAllocated", i, 0, 0, 0, 0),
       D("switchToClient", i, 0, 0, 0, 0),
       D("free", i, 0, 0, 0, 3),
       D("switchFromClient", i, 0, 0, 0, 0),
       D("getPreciseAllocated", i, 0, 0, 0, 0) >>

\* the ways a block is taken and given back; cb_strdup of a string of length
\* n is cb_malloc(n + 1)
Shapes == {"malloc_free", "calloc_free", "realloc_free", "realloc_null_free",
           "malloc_sized_free", "strdup_free"}

\* the thread switches to the client, samples, takes a block, samples, gives
\* the block back, samples
RoundTripProg(shape, i, n) ==
    LET sample == D("getPreciseAllocated", i, 0, 0, 0, 0)
        take ==
            CASE shape = "calloc_free" -> << D("calloc", i, 0, 2, n, 0) >>
              [] shape = "realloc_free" ->
                     << D("malloc", i, 0, 1, n, 0),
                        D("realloc", i, 0, 1, n + 20, 3) >>
              [] shape = "realloc_null_free" ->
                     << D("realloc", i, 0, 1, n, 0) >>
              [] shape = "strdup_free" -> << D("malloc", i, 0, 1, n + 1, 0) >>
              [] OTHER -> << D("malloc", i, 0, 1, n, 0) >>
        give == D(IF shape = "malloc_sized_free" THEN "sized_free" ELSE "free",
                  i, 0, 0, n, 3)
    IN << D("switchToClient", i, 0, 0, 0, 0), sample >> \o take
           \o << sample, give, sample >>

\* the slot is given up and a client registered again; the new handle is
\* sampled
ReuseProg(i) ==
    << D("unregisterClient", i, 0, 0, 0, 0),
       D("registerClient", i, 0, 0, 0, 0),
       D("getPreciseAllocated", i, 2, 0, 0, 0) >>

\* thread 1 starts a scenario on a registered client, with no call running
Begin(kind, i, n, program) ==
    /\ script.kind = "none"
    /\ AllIdle
    /\ i \in Registered
    /\ script' = [NoScript EXCEPT !.kind = kind, !.h = i, !.n = n,
                                   !.base = SignedTotal(i)]
    /\ prog' = [prog EXCEPT ![1] = program]
    /\ UNCHANGED <<registryVars, switchVars, trackerVars, memVars, thr,
                   counterVars,
                   callsMade, obs, handles>>

BeginBracket(i, n) ==
    /\ FreePtrs # {}
    /\ Begin("bracket", i, n, BracketProg(i, n))

BeginRoundTrip(shape, i, n) ==
    /\ FreePtrs # {}
    /\ Begin(shape, i, n, RoundTripProg(shape, i, n))

BeginReuse(i) == Begin("reuse", i, 0, ReuseProg(i))

\* the thread switches to client a and then, without switching from it, to
\* client b and allocates; it switches from once (as one
\* ArenaMallocAutoSwitchFrom going out of scope does) and allocates again;
\* both clients are sampled before, between and after
OverwriteProg(a, b, n) ==
    << D("getPreciseAllocated", a, 0, 0, 0, 0),
       D("getPreciseAllocated", b, 0, 0, 0, 0),
       D("switchToClient", a, 0, 0, 0, 0),
       D("switchToClient", b, 0, 0, 0, 0),
       D("malloc", b, 0, 1, n, 0),
       D("getPreciseAllocated", a, 0, 0, 0, 0),
       D("getPreciseAllocated", b, 0, 0, 0, 0),
       D("switchFromClient", b, 0, 0, 0, 0),
       D("malloc", b, 0, 1, n, 0),
       D("getPreciseAllocated", a, 0, 0, 0, 0),
       D("getPreciseAllocated", b, 0, 0, 0, 0) >>

\* the client is unregistered; the thread switches to its handle all the
\* same and allocates, a client is registered, and the thread, still on the
\* old handle, allocates again
StaleProg(i, n) ==
    << D("unregisterClient", i, 0, 0, 0, 0),
       D("switchToClient", i, 0, 0, 0, 0),
       D("malloc", i, 0, 1, n, 0),
       D("getPreciseAllocated", i, 0, 0, 0, 0),
       D("registerClient", i, 0, 0, 0, 0),
       D("malloc", i, 0, 1, n, 0),
       D("getPreciseAllocated", i, 5, 0, 0, 0) >>

BeginStale(i, n) ==
    /\ Cardinality(FreePtrs) >= 2
    /\ Begin("stale", i, n, StaleProg(i, n))

BeginOverwrite(a, b, n) ==
    /\ b \in Registered \ {a}
    /\ Cardinality(FreePtrs) >= 2
    /\ Begin("overwrite", a, n, OverwriteProg(a, b, n))

\* Calls are made one at a time by any thread; then thread 1 runs a scenario.
NextScript ==
    \/ \E t \in Threads :
        \/ Hist(CallRegisterClient(t, FALSE))
        \/ \E i \in Indices : Hist(CallSwitchToClient(t, i, FALSE))
        \/ Hist(SwitchFromClient(t))
        \/ \E n \in ScriptSizes : Hist(CallMalloc(t, n))
        \/ \E p \in Ptrs : Hist(CallFree(t, p))
        \/ \E i \in Indices : Hist(CallGetPreciseAllocated(t, i))
        \/ \E i \in Indices, th \in Thresholds :
               Hist(UpdateClientThreshold(t, i, th))
        \/ ScriptCall(t)
        \/ Step(t)
        \/ Ret(t)
    \/ \E i \in Indices, n \in ScriptSizes : BeginBracket(i, n)
    \/ \E shape \in Shapes, i \in Indices, n \in ScriptSizes :
           BeginRoundTrip(shape, i, n)
    \/ \E i \in Indices : BeginReuse(i)
    \/ \E a \in Indices, b \in Indices, n \in ScriptSizes :
           BeginOverwrite(a, b, n)
    \/ \E i \in Indices, n \in ScriptSizes : BeginStale(i, n)

SpecScript == Init /\ [][NextScript]_vars

\* the main thread registers one client per thread and gives each a small
\* threshold
SetupProg ==
    [k \in 1..NumThreads |-> D("registerClient", 0, 0, 0, 0, 0)]
    \o [k \in 1..NumThreads |->
            D("updateClientThreshold", 0, k, 0,
              CHOOSE th \in Thresholds : TRUE, 0)]

StartThreads(n) ==
    /\ script.kind = "none"
    /\ AllIdle
    /\ callsMade = 0
    /\ NumThreads <= ArenaMallocMaxClients
    /\ script' = [NoScript EXCEPT !.kind = "setup", !.n = n]
    /\ prog' = [prog EXCEPT ![1] = SetupProg]
    /\ UNCHANGED <<registryVars, switchVars, trackerVars, memVars, thr,
                   counterVars,
                   callsMade, obs, handles>>

\* every thread t gets the client of index t - 1 and runs basicUsage on it
Spawn ==
    /\ script.kind = "setup"
    /\ AllIdle
    /\ prog[1] = <<>>
    /\ script' = [script EXCEPT !.kind = "threads"]
    /\ prog' = [t \in Threads |-> BracketProg(t - 1, script.n)]
    /\ obs' = [t \in Threads |-> <<>>]
    /\ UNCHANGED <<registryVars, switchVars, trackerVars, memVars, thr,
                   counterVars,
                   callsMade, handles>>

\* Threads concurrently use one client each.
NextThreads ==
    \/ \E n \in ScriptSizes : StartThreads(n)
    \/ Spawn
    \/ \E t \in Threads :
        \/ ScriptCall(t)
        \/ Step(t)
        \/ Ret(t)

SpecThreads == Init /\ [][NextThreads]_vars

\* the main thread registers a client and gives it a small threshold
SharedSetupProg ==
    << D("registerClient", 0, 0, 0, 0, 0),
       D("updateClientThreshold", 0, 1, 0, CHOOSE th \in Thresholds : TRUE, 0) >>

\* a worker switches to the client, takes a block and gives it back
WarmProg(i, n) ==
    << D("switchToClient", i, 0, 0, 0, 0),
       D("malloc", i, 0, 1, n, 0),
       D("free", i, 0, 0, 0, 2) >>

StartShared(n) ==
    /\ script.kind = "none"
    /\ AllIdle
    /\ callsMade = 0
    /\ NumThreads >= 2
    /\ script' = [NoScript EXCEPT !.kind = "shared_setup", !.n = n]
    /\ prog' = [prog EXCEPT ![1] = SharedSetupProg]
    /\ UNCHANGED <<registryVars, switchVars, trackerVars, memVars, thr,
                   counterVars,
                   callsMade, obs, handles>>

\* thread 2 is the worker
Warm ==
    /\ script.kind = "shared_setup"
    /\ AllIdle
    /\ prog[1] = <<>>
    /\ script' = [script EXCEPT !.kind = "shared_warm", !.h = obs[1][1].h]
    /\ prog' = [prog EXCEPT ![2] = WarmProg(obs[1][1].h, script.n)]
    /\ UNCHANGED <<registryVars, switchVars, trackerVars, memVars, thr,
                   counterVars,
                   callsMade, obs, handles>>

\* the main thread reads the client's total while the worker, still switched
\* to the client, takes a block of m bytes
Race(m) ==
    /\ script.kind = "shared_warm"
    /\ AllIdle
    /\ prog[2] = <<>>
    /\ script' = [script EXCEPT !.kind = "shared_race"]
    /\ prog' = [prog EXCEPT
           ![1] = << D("getPreciseAllocated", script.h, 0, 0, 0, 0) >>,
           ![2] = << D("malloc", script.h, 0, 1, m, 0) >>]
    /\ UNCHANGED <<registryVars, switchVars, trackerVars, memVars, thr,
                   counterVars,
                   callsMade, obs, handles>>

\* both are done; the main thread reads the total again, with no other call
\* running
After ==
    /\ script.kind = "shared_race"
    /\ AllIdle
    /\ prog[1] = <<>> /\ prog[2] = <<>>
    /\ script' = [script EXCEPT !.kind = "shared"]
    /\ prog' = [prog EXCEPT
           ![1] = << D("getPreciseAllocated", script.h, 0, 0, 0, 0) >>]
    /\ UNCHANGED <<registryVars, switchVars, trackerVars, memVars, thr,
                   counterVars,
                   callsMade, obs, handles>>

\* One thread reads a client's total while another allocates inside it.
NextShared ==
    \/ \E n \in ScriptSizes : StartShared(n)
    \/ Warm
    \/ \E m \in ScriptSizes : Race(m)
    \/ After
    \/ \E t \in Threads :
        \/ ScriptCall(t)
        \/ Step(t)
        \/ Ret(t)

SpecShared == Init /\ [][NextShared]_vars

\* indices a caller can pass to an unregister call: those of the handles it
\* holds, and those of slots that are not in use
Unregisterable ==
    {i \in Indices : \/ ~clients[i].used
                     \/ \E k \in 1..Len(handles) : handles[k].index = i}

\* Threads register, unregister and switch freely and concurrently, with
\* thread caches on or off; setTCacheEnabled is called while no call runs.
NextRegistry ==
    \E t \in Threads :
        \/ \E tc \in BOOLEAN : Free(CallRegisterClient(t, tc))
        \/ \E i \in Unregisterable : Free(UnregisterClient(t, i))
        \/ /\ CurrentIndex(t) \in Unregisterable \cup {NoClientIndex}
           /\ Free(UnregisterCurrentClient(t))
        \/ \E i \in Indices, tc \in BOOLEAN :
               Free(CallSwitchToClient(t, i, tc))
        \/ Free(SwitchFromClient(t))
        \/ \E value \in BOOLEAN :
               AllIdle /\ Free(SetTCacheEnabled(t, value))
        \/ \E n \in ScriptSizes : Free(CallMalloc(t, n))
        \/ \E i \in Indices : Free(CallGetPreciseAllocated(t, i))
        \/ \E i \in Indices, th \in Thresholds :
               Free(UpdateClientThreshold(t, i, th))
        \/ Step(t)
        \/ Ret(t)

SpecRegistry == Init /\ [][NextRegistry]_vars

\* Threads register clients with thread caches off, give them sinks, allocate
\* and release inside them and refresh the sinks, freely and concurrently.
NextTotals ==
    \E t \in Threads :
        \/ Free(CallRegisterClient(t, FALSE))
        \/ \E i \in Indices : Free(RegisterTotalCounter(t, i))
        \/ \E i \in Indices : Free(CallSwitchToClient(t, i, FALSE))
        \/ Free(SwitchFromClient(t))
        \/ \E n \in ScriptSizes : Free(CallMalloc(t, n))
        \/ \E p \in Ptrs : Free(CallFree(t, p))
        \/ Free(UpdateTotalCounters(t))
        \/ \E i \in Unregisterable : Free(UnregisterClient(t, i))
        \/ \E i \in Indices : Free(CallGetPreciseAllocated(t, i))
        \/ \E i \in Indices, th \in Thresholds :
               Free(UpdateClientThreshold(t, i, th))
        \/ Step(t)
        \/ Ret(t)

SpecTotals == Init /\ [][NextTotals]_vars

\* ------------------------------------------- a caller of NonNegativeCounter
\* everything of the allocator, which no operation on a counter touches
arenaSide ==
    <<registryVars, switchVars, trackerVars, memVars, thr, callsMade, script,
      prog, obs, handles>>

\* NonNegativeCounter(T initial)
Construct(P, initial) ==
    /\ nnAtomic' = [policy |-> P, value |-> initial]
    /\ nnCall' = [NoCall EXCEPT !.op = "construct", !.arg = initial]
    /\ UNCHANGED arenaSide

\* store(desired), operator=(T val)
store(desired) ==
    /\ nnAtomic' = [nnAtomic EXCEPT !.value = desired]
    /\ nnCall' = [NoCall EXCEPT !.op = "store", !.arg = desired,
                                !.current = nnAtomic.value]
    /\ UNCHANGED arenaSide

\* the compare_exchange of fetch_add/fetch_sub stores what the loop body
\* decided, unless the policy threw; `ret` is what the operation hands back
Finish(op, arg, o, ret) ==
    /\ nnAtomic' = [nnAtomic EXCEPT
                      !.value = IF o.thrown = "none" THEN o.desired ELSE @]
    /\ nnCall' = [op |-> op, arg |-> arg, current |-> nnAtomic.value,
                  ret |-> IF o.thrown = "none" THEN ret ELSE 0,
                  thrown |-> o.thrown, policy |-> o.policy]
    /\ UNCHANGED arenaSide

FetchAdd(arg) ==
    Finish("fetch_add", arg,
           fetch_add(nnAtomic.policy, nnAtomic.value, arg), nnAtomic.value)

FetchSub(arg) ==
    Finish("fetch_sub", arg,
           fetch_sub(nnAtomic.policy, nnAtomic.value, arg), nnAtomic.value)

\* operator+=(const T rhs): fetch_add(rhs) converts rhs to SignedT; the
\* caller reads the counter back through operator T()
AddAssign(rhs) ==
    LET o == fetch_add(nnAtomic.policy, nnAtomic.value, ToSignedT(rhs))
    IN  Finish("+=", ToSignedT(rhs), o, o.desired)

\* operator-=(const T rhs)
SubAssign(rhs) ==
    LET o == fetch_sub(nnAtomic.policy, nnAtomic.value, ToSignedT(rhs))
    IN  Finish("-=", ToSignedT(rhs), o, o.desired)

\* operator++(): fetch_add(1) + 1, returned as T
PreIncrement ==
    Finish("++pre", 1, fetch_add(nnAtomic.policy, nnAtomic.value, 1),
           ToT(nnAtomic.value + 1))

\* operator++(int)
PostIncrement ==
    Finish("post++", 1, fetch_add(nnAtomic.policy, nnAtomic.value, 1),
           nnAtomic.value)

\* operator--(): fetch_sub(1) stores first; a previous value of 0 is then
\* handed to the policy, which throws or leaves 0 to return
PreDecrement ==
    LET o == fetch_sub(nnAtomic.policy, nnAtomic.value, 1)
        after == IF o.thrown = "none" /\ nnAtomic.value = 0
                 THEN subceed(nnAtomic.policy, 0)
                 ELSE o
    IN  /\ nnAtomic' = [nnAtomic EXCEPT
                          !.value = IF o.thrown = "none" THEN o.desired
                                    ELSE @]
        /\ nnCall' = [op |-> "--pre", arg |-> 1, current |-> nnAtomic.value,
                      ret |-> IF after.thrown # "none" \/ nnAtomic.value = 0
                              THEN 0 ELSE nnAtomic.value - 1,
                      thrown |-> after.thrown, policy |-> after.policy]
        /\ UNCHANGED arenaSide

\* operator--(int)
PostDecrement ==
    Finish("post--", 1, fetch_sub(nnAtomic.policy, nnAtomic.value, 1),
           nnAtomic.value)

\* One caller constructs counters and applies the operations in any order.
NextCounter ==
    \/ \E P \in Policies, initial \in Initials : Construct(P, initial)
    \/ \E desired \in Initials : store(desired)
    \/ \E arg \in SignedArgs : FetchAdd(arg)
    \/ \E arg \in SignedArgs : FetchSub(arg)
    \/ \E rhs \in UnsignedArgs : AddAssign(rhs)
    \/ \E rhs \in UnsignedArgs : SubAssign(rhs)
    \/ PreIncrement
    \/ PostIncrement
    \/ PreDecrement
    \/ PostDecrement

SpecCounter == Init /\ [][NextCounter]_vars

\* --------------------------------------- one thread sizing one client
\* sizes handed to malloc and realloc
SizeArgs == {0, 1, 20}
\* how the block is obtained: malloc(a) or realloc(nullptr, a)
Takes == {"malloc", "realloc"}
\* how it is given back
Gives == {"free", "sized_free"}

\* the thread registers a client with a small threshold and switches to it;
\* it takes a block of a bytes, reallocates it to b bytes, gives it back and
\* then gives back nullptr, sampling the client before and after each call;
\* sized_free is handed the size asked for (1 for a request of 0 bytes)
SizesProg(take, give, a, b) ==
    LET sample == D("getPreciseAllocated", 0, 1, 0, 0, 0)
    IN << D("registerClient", 0, 0, 0, 0, 0),
          D("updateClientThreshold", 0, 1, 0,
            CHOOSE th \in Thresholds : TRUE, 0),
          D("switchToClient", 0, 1, 0, 0, 0),
          sample,
          D(take, 0, 1, 1, a, 0),
          sample,
          D("realloc", 0, 1, 1, b, 5),
          sample,
          D(give, 0, 1, 0, Max(1, b), 7),
          sample,
          D(give, 0, 1, 0, Max(1, b), 0),
          sample >>

StartSizes(take, give, a, b) ==
    /\ script.kind = "none"
    /\ AllIdle
    /\ callsMade = 0
    /\ script' = [NoScript EXCEPT !.kind = "sizes", !.n = a, !.m = b]
    /\ prog' = [prog EXCEPT ![1] = SizesProg(take, give, a, b)]
    /\ UNCHANGED <<registryVars, switchVars, trackerVars, memVars, thr,
                   counterVars, callsMade, obs, handles>>

\* One thread takes, resizes and gives back one block inside its client.
NextSizes ==
    \/ \E take \in Takes, give \in Gives, a \in SizeArgs, b \in SizeArgs :
           StartSizes(take, give, a, b)
    \/ \E t \in Threads :
        \/ ScriptCall(t)
        \/ Step(t)
        \/ Ret(t)

SpecSizes == Init /\ [][NextSizes]_vars

\* ------------------------------------- two threads taking turns on a client
\* a stage in which only thread t makes calls
Only(t, program) == [u \in Threads |-> IF u = t THEN program ELSE <<>>]

\* a stage in which thread 1 and thread w each make calls, concurrently
Both(first, w, second) ==
    [u \in Threads |-> IF u = 1 THEN first ELSE IF u = w THEN second ELSE <<>>]

\* Thread 1 registers a client (slot 0) with a small threshold and takes a
\* block of n bytes inside it; thread w switches to the client and gives the
\* block back; thread 1 reads the estimate; both threads take a block of m
\* bytes at the same time; thread 1 reads the estimate and the precise total.
ExcursionStages(w, n, m) ==
    << Only(1, << D("registerClient", 0, 0, 0, 0, 0),
                  D("updateClientThreshold", 0, 1, 0,
                    CHOOSE th \in Thresholds : TRUE, 0),
                  D("switchToClient", 0, 1, 0, 0, 0),
                  D("malloc", 0, 1, 1, n, 0) >>),
       Only(w, << D("switchToClient", 0, 0, 0, 0, 0),
                  DOf("free", 0, 0, 1, 4) >>),
       Only(1, << D("getEstimatedAllocated", 0, 1, 0, 0, 0) >>),
       Both(<< D("malloc", 0, 1, 1, m, 0) >>, w,
            << D("malloc", 0, 0, 1, m, 0) >>),
       Only(1, << D("getEstimatedAllocated", 0, 1, 0, 0, 0),
                  D("getPreciseAllocated", 0, 1, 0, 0, 0) >>) >>

\* Thread 1 registers a client (slot 0) and gives it a small threshold;
\* thread w switches to it, takes two blocks of n bytes, reads the estimate
\* and gives the blocks back; thread 1 unregisters the client and registers
\* one again; thread w switches to the slot, takes two blocks and reads the
\* estimate.
ThresholdStages(w, n) ==
    LET off == IF w = 1 THEN 2 ELSE 0
    IN << Only(1, << D("registerClient", 0, 0, 0, 0, 0),
                     D("updateClientThreshold", 0, 1, 0,
                       CHOOSE th \in Thresholds : TRUE, 0) >>),
          Only(w, << D("switchToClient", 0, 0, 0, 0, 0),
                     D("malloc", 0, 0, 1, n, 0),
                     D("malloc", 0, 0, 1, n, 0),
                     D("getEstimatedAllocated", 0, 0, 0, 0, 0),
                     D("free", 0, 0, 0, 0, off + 2),
                     D("free", 0, 0, 0, 0, off + 3) >>),
          Only(1, << D("unregisterClient", 0, 0, 0, 0, 0),
                     D("registerClient", 0, 0, 0, 0, 0) >>),
          Only(w, << D("switchToClient", 0, 0, 0, 0, 0),
                     D("malloc", 0, 0, 1, n, 0),
                     D("malloc", 0, 0, 1, n, 0),
                     D("getEstimatedAllocated", 0, 0, 0, 0, 0) >>) >>

StagedKinds == {"excursion", "threshold"}

\* the stages of the scenario sc
Stages(sc) ==
    CASE sc.kind = "excursion" -> ExcursionStages(sc.worker, sc.n, sc.m)
      [] sc.kind = "threshold" -> ThresholdStages(sc.worker, sc.n)

\* the scenario starts with its first stage
StartStaged(kind, w, n, m) ==
    /\ script.kind = "none"
    /\ AllIdle
    /\ callsMade = 0
    /\ kind = "excursion" => w # 1
    /\ kind = "threshold" => m = n
    /\ LET sc == [NoScript EXCEPT !.kind = kind, !.n = n, !.m = m,
                                  !.worker = w, !.stage = 1]
       IN /\ script' = sc
          /\ prog' = Stages(sc)[1]
    /\ UNCHANGED <<registryVars, switchVars, trackerVars, memVars, thr,
                   counterVars, callsMade, obs, handles>>

\* every call of the stage has returned: the next stage starts
Relay ==
    /\ script.kind \in StagedKinds
    /\ AllIdle
    /\ \A t \in Threads : prog[t] = <<>>
    /\ script.stage < Len(Stages(script))
    /\ script' = [script EXCEPT !.stage = @ + 1]
    /\ prog' = Stages(script)[script.stage + 1]
    /\ UNCHANGED <<registryVars, switchVars, trackerVars, memVars, thr,
                   counterVars, callsMade, obs, handles>>

\* Two threads use one client in turn, and once at the same time.
NextStaged ==
    \/ \E kind \in StagedKinds, w \in Threads, n \in ScriptSizes,
          m \in ScriptSizes : StartStaged(kind, w, n, m)
    \/ Relay
    \/ \E t \in Threads :
        \/ ScriptCall(t)
        \/ Step(t)
        \/ Ret(t)

SpecStaged == Init /\ [][NextStaged]_vars

\* ------------------------------------------ threads and their thread caches
\* the handles a caller holds, with threadCache set as it wishes ("client can
\* change tcache setting")
HeldHandles ==
    {Handle(handles[k].arena, handles[k].index, tc) :
         k \in 1..Len(handles), tc \in BOOLEAN}

\* a default-constructed ArenaMallocClient: index{0}, threadCache{true},
\* arena{0}
DefaultHandle == Handle(0, 0, TRUE)

\* the handle of no client, as switchFromClient builds it
NoClientHandles == {Handle(0, NoClientIndex, tc) : tc \in BOOLEAN}

\* the steps inside registerClient and switchToClient
RegistryStep(t) ==
    \/ Increment(t)
    \/ Flush1(t)
    \/ Flush2(t)
    \/ ReadFullExchange(t)
    \/ ReadFullRead(t)
    \/ ReadFullMark(t)
    \/ RegisterReturn(t)
    \/ SwitchInstall(t)

\* Threads register clients with or without thread caching, switch to the
\* handles they hold and to handles they made themselves, and exit;
\* setTCacheEnabled is called while no call runs.
NextTCache ==
    \E t \in Threads :
        \/ \E hint \in BOOLEAN :
               Free(t \in Alive /\ CallRegisterClient(t, hint))
        \/ \E client \in HeldHandles \cup NoClientHandles \cup {DefaultHandle} :
               Free(t \in Alive /\ SwitchToClient(t, client))
        \/ Free(t \in Alive /\ SwitchFromClient(t))
        \/ \E value \in BOOLEAN :
               AllIdle /\ Free(t \in Alive /\ SetTCacheEnabled(t, value))
        \/ ThreadExit(t)
        \/ RegistryStep(t)
        \/ Ret(t)

SpecTCache == Init /\ [][NextTCache]_vars

\* ------------------------------ threads sharing one NonNegativeCounter
\* SignedT arguments the threads hand to fetch_add and fetch_sub
SharedArgs == {-1, 1, 2}
\* values the shared counter is constructed with
SharedInitials == {0, 2, 5}
SharedOps == {"fetch_add", "fetch_sub"}

\* everything but the counter, the threads' frames and what they observed
sharedRest ==
    <<registryVars, switchVars, trackerVars, memVars, callsMade, script,
      prog, handles>>

\* the counter is constructed once, before any thread uses it
ConstructShared(P, initial) ==
    /\ nnCall = NoCall
    /\ AllIdle
    /\ Construct(P, initial)

\* the body of the do-while loop of fetch_add / fetch_sub, on `current`
LoopBody(op, current, arg) ==
    IF op = "fetch_add" THEN fetch_add(nnAtomic.policy, current, arg)
    ELSE fetch_sub(nnAtomic.policy, current, arg)

\* fetch_add(arg) / fetch_sub(arg) is entered: `T current = load();`
LoadCurrent(t, op, arg) ==
    /\ nnCall.op = "construct"
    /\ thr[t].pc = "idle"
    /\ Len(obs[t]) < CounterCalls
    /\ thr' = [thr EXCEPT ![t] =
           [pc |-> "loop", op |-> op, arg |-> arg,
            current |-> nnAtomic.value, thrown |-> "none"]]
    /\ UNCHANGED <<nnAtomic, nnCall, obs, sharedRest>>

\* the loop body hands `current` to a policy that throws: the exception
\* leaves the call before any compare_exchange_weak
PolicyThrows(t) ==
    /\ thr[t].pc = "loop"
    /\ LET o == LoopBody(thr[t].op, thr[t].current, thr[t].arg)
       IN /\ o.thrown # "none"
          /\ thr' = [thr EXCEPT ![t].pc = "ret", ![t].thrown = o.thrown]
    /\ UNCHANGED <<nnAtomic, nnCall, obs, sharedRest>>

\* value.compare_exchange_weak(current, desired) finds `current` still in
\* place and stores `desired`; the call returns `current`
CompareExchange(t) ==
    /\ thr[t].pc = "loop"
    /\ LET o == LoopBody(thr[t].op, thr[t].current, thr[t].arg)
       IN /\ o.thrown = "none"
          /\ nnAtomic.value = thr[t].current
          /\ nnAtomic' = [nnAtomic EXCEPT !.value = o.desired]
    /\ thr' = [thr EXCEPT ![t].pc = "ret"]
    /\ UNCHANGED <<nnCall, obs, sharedRest>>

\* value.compare_exchange_weak(current, desired) finds another value: it
\* reloads `current` and the loop runs again.  (A spurious failure reloads
\* the same value and changes nothing.)
CompareExchangeFails(t) ==
    /\ thr[t].pc = "loop"
    /\ LoopBody(thr[t].op, thr[t].current, thr[t].arg).thrown = "none"
    /\ nnAtomic.value # thr[t].current
    /\ thr' = [thr EXCEPT ![t].current = nnAtomic.value]
    /\ UNCHANGED <<nnAtomic, nnCall, obs, sharedRest>>

\* `return current;`, or the exception reaches the caller
ReturnShared(t) ==
    /\ thr[t].pc = "ret"
    /\ obs' = [obs EXCEPT ![t] =
           Append(@, [op |-> thr[t].op, arg |-> thr[t].arg,
                      ret |-> thr[t].current, thrown |-> thr[t].thrown])]
    /\ thr' = [thr EXCEPT ![t] = IdleFrame]
    /\ UNCHANGED <<nnAtomic, nnCall, sharedRest>>

\* The threads call fetch_add and fetch_sub on one counter, each a bounded
\* number of times, in any interleaving of their loads and compare-exchanges.
NextAtomic ==
    \/ \E P \in Policies, initial \in SharedInitials :
           ConstructShared(P, initial)
    \/ \E t \in Threads :
           \/ \E op \in SharedOps, arg \in SharedArgs : LoadCurrent(t, op, arg)
           \/ PolicyThrows(t)
           \/ CompareExchange(t)
           \/ CompareExchangeFails(t)
           \/ ReturnShared(t)

SpecAtomic == Init /\ [][NextAtomic]_vars

\* ------------------------------------------------------- properties
Queries == {"getPreciseAllocated", "getEstimatedAllocated"}

\* the thread whose frame a step changed
Moved(t) == thr'[t] # thr[t]

\* the counters of the accounting backend
counters == <<taTarget, taCache, clientEstimatedMemory, threadThreshold>>

\* C1: getPreciseAllocated and getEstimatedAllocated return max(0, v) of the
\* signed aggregate v they loaded: never a negative number, and never the
\* large unsigned value a negative v wraps to.
C1_NonNegative ==
    \A t \in Threads :
        (thr[t].pc = "ret" /\ thr[t].op \in Queries) =>
            /\ thr[t].res >= 0
            /\ thr[t].res = (IF thr[t].acc < 0 THEN 0 ELSE thr[t].acc)

\* a query has loaded a negative aggregate and returned 0
C1_Witness ==
    \E t \in Threads :
        /\ thr[t].pc = "ret"
        /\ thr[t].op = "getPreciseAllocated"
        /\ thr[t].acc < 0
        /\ thr[t].res = 0

\* C4: every step of malloc, calloc, realloc, free and sized_free made by a
\* thread whose current client is NoClientIndex leaves all counters of every
\* client unchanged, and the call goes straight to the allocator (or returns
\* at once for free(nullptr)), where the block is made or released.
C4_NoClientNoCharge ==
    [][\A t \in Threads :
          ( /\ Moved(t)
            /\ thr[t].op \in MemOps \/ thr'[t].op \in MemOps
            /\ currentClient[t].index = NoClientIndex ) =>
              /\ UNCHANGED counters
              /\ thr[t].pc = "idle" =>
                     \/ thr'[t].pc = "je"
                     \/ /\ thr'[t].pc = "ret"
                        /\ thr'[t].op \in {"free", "sized_free"}
                        /\ thr'[t].ptr = NULL
              /\ thr[t].pc = "je" =>
                     /\ thr'[t].pc = "ret"
                     /\ thr[t].op \in {"free", "sized_free"} =>
                            heap'[thr[t].ptr] = 0
                     /\ thr[t].op \notin {"free", "sized_free"} =>
                            /\ thr'[t].res # NULL
                            /\ heap'[thr'[t].res] # 0
       ]_vars

\* a thread with no client has been served a block while a client is
\* registered
C4_Witness ==
    \E t \in Threads :
        /\ thr[t].pc = "ret"
        /\ thr[t].op \in {"malloc", "calloc", "realloc"}
        /\ thr[t].res # NULL
        /\ currentClient[t].index = NoClientIndex
        /\ \E i \in Indices : clients[i].used

\* C6: whenever no call is running, for every registered client the precise
\* and the estimated total differ by at most (number of shards, one per
\* thread) x (the client's threshold).
C6_DriftBound ==
    AllIdle =>
        \A i \in Indices :
            clients[i].used =>
                Abs(ClampUnsigned(SignedTotal(i))
                    - ClampUnsigned(clientEstimatedMemory[i]))
                    <= NumThreads * threadThreshold[i]

C10_Unregister ==
    [][\A t \in Threads :
          (thr[t].pc = "idle" /\ thr'[t].op = "unregisterClient") =>
              LET i == thr'[t].h
              IN IF ~clients[i].used
                 THEN /\ thr'[t].err = "InvalidHandle"
                      /\ UNCHANGED <<clients, arenasCreated>>
                 ELSE /\ thr'[t].err = "none"
                      /\ ~clients'[i].used
                      /\ clients'[i].arena = clients[i].arena
                      /\ \A j \in Indices \ {i} : clients'[j] = clients[j]
       ]_vars

\* unregisterClient of a slot that was never registered has failed while
\* another slot is in use
C10_Witness ==
    \E t \in Threads :
        /\ thr[t].pc = "ret"
        /\ thr[t].op = "unregisterClient"
        /\ thr[t].err = "InvalidHandle"
        /\ clients[thr[t].h].arena = 0
        /\ \E j \in Indices : clients[j].used

\* the scenario of kind k has run to its end
Done(k) == script.kind = k /\ prog[1] = <<>> /\ thr[1].pc = "idle"

\* the samples of the bracket scenario: before the malloc, after it, after
\* the free
Pre == obs[1][1]
Mid == obs[1][5]
Post == obs[1][9]

\* C2 (as amended): a malloc charged to the client raises the signed
\* aggregate getPreciseAllocated loads by exactly the size class of the
\* block; the returned total never drops, and it is strictly greater whenever
\* the aggregate was not negative before the malloc.
C2_ChargeRaises ==
    Done("bracket") =>
        /\ Mid.acc = Pre.acc + je_nallocx(NormSize(script.n))
        /\ Mid.res >= Pre.res
        /\ Pre.acc >= 0 => Mid.res > Pre.res

\* the bracket scenario has run on a client holding bytes already
C2_Witness ==
    /\ Done("bracket")
    /\ Pre.res > 0
    /\ Mid.res > Pre.res

\* C2 (as stated): getPreciseAllocated after the malloc is strictly greater
\* than the value sampled before it.
C2_StrictlyGreater == Done("bracket") => Mid.res > Pre.res

\* C3: after the block is released under the same client,
\* getPreciseAllocated returns exactly the value sampled before the malloc.
C3_CreditRestores ==
    Done("bracket") =>
        /\ Post.res = Pre.res
        /\ Post.acc = Pre.acc

\* the total went up with the malloc and came back with the free
C3_Witness ==
    /\ Done("bracket")
    /\ Pre.res > 0
    /\ Mid.res > Pre.res
    /\ Post.res = Pre.res

\* the samples of a round trip: before the block is taken, while it is held,
\* after it is given back
Base == obs[1][2]
Held1 == obs[1][Len(obs[1]) - 2]
Last == obs[1][Len(obs[1])]

RoundTripDone == \E shape \in Shapes : Done(shape)

\* C5 (as amended): from a state where the client's signed aggregate is 0
\* and the thread is switched to the client, each of malloc/free,
\* calloc/free, malloc+realloc up/free, realloc(nullptr)/free,
\* malloc/sized_free and strdup/free makes getPreciseAllocated > 0 while the
\* block is held and 0 again after it is given back.
C5_RoundTrip ==
    (RoundTripDone /\ Base.acc = 0) =>
        /\ Held1.res > 0
        /\ Last.res = 0

\* a round trip through calloc has run from a zero aggregate
C5_Witness ==
    /\ Done("calloc_free")
    /\ Base.acc = 0
    /\ Held1.res > 0
    /\ Last.res = 0

\* C5 (as stated): the same from any state where getPreciseAllocated
\* returned 0.
C5_FromZeroReading ==
    (RoundTripDone /\ Base.res = 0) =>
        /\ Held1.res > 0
        /\ Last.res = 0

\* C7: when unregisterClient(h) is followed by a registerClient that returns
\* the index of h, getPreciseAllocated of the new handle returns 0 and
\* nothing of the earlier occupant is left in the aggregate, target_ or any
\* IntCache that counts.
C7_SlotReuse ==
    (Done("reuse") /\ obs[1][2].h = script.h) =>
        /\ obs[1][3].res = 0
        /\ obs[1][3].acc = 0
        /\ SignedTotal(script.h) = 0

\* the slot was reused while the earlier occupant had bytes charged
C7_Witness ==
    /\ Done("reuse")
    /\ obs[1][2].h = script.h
    /\ script.base > 0
    /\ obs[1][3].res = 0

\* what thread t's client holds after t has finished k calls of basicUsage
Expected(k) ==
    IF 3 <= k /\ k < 7 THEN je_nallocx(NormSize(script.n)) ELSE 0

\* C8: with every thread on a client of its own, whatever the other threads
\* are doing: between its calls a thread's client holds exactly the bytes
\* the thread has charged and not credited, and its samples are 0 before the
\* malloc, the size class of the block after it, and 0 after the free.
C8_Independence ==
    script.kind = "threads" =>
        \A t \in Threads :
            /\ thr[t].pc = "idle" =>
                   SignedTotal(t - 1) = Expected(Len(obs[t]))
            /\ Len(obs[t]) >= 1 => obs[t][1].res = 0
            /\ Len(obs[t]) >= 5 =>
                   obs[t][5].res = je_nallocx(NormSize(script.n))
            /\ Len(obs[t]) >= 9 => obs[t][9].res = 0

\* all threads hold their block at the same time
C8_Witness ==
    /\ script.kind = "threads"
    /\ \A t \in Threads :
           /\ Len(obs[t]) = 5
           /\ obs[t][5].res = je_nallocx(NormSize(script.n))
           /\ thr[t].pc = "idle"

\* C11: unregisterCurrentClient() of a thread with no client fails with
\* NoCurrentClient and changes no slot; of a thread switched to a client whose
\* slot is not in use it fails and changes no slot; otherwise it marks exactly
\* that slot not in use, keeps its arena, and leaves every other slot alone.
C11_UnregisterCurrent ==
    [][\A t \in Threads :
          ( /\ thr[t].pc = "idle"
            /\ thr'[t].op = "unregisterCurrentClient" ) =>
              LET i == currentClient[t].index
              IN /\ thr'[t].pc = "ret"
                 /\ UNCHANGED <<clientsLock, arenasCreated, currentClient,
                                counters>>
                 /\ IF i = NoClientIndex
                    THEN /\ thr'[t].err = "NoCurrentClient"
                         /\ UNCHANGED clients
                    ELSE IF ~clients[i].used
                    THEN /\ thr'[t].err = "NotInUse"
                         /\ UNCHANGED clients
                    ELSE /\ thr'[t].err = "none"
                         /\ clients' = [clients EXCEPT ![i].used = FALSE]
       ]_vars

\* a thread has unregistered the client it is switched to while another slot
\* stays in use
C11_Witness ==
    \E t \in Threads :
        /\ thr[t].pc = "ret"
        /\ thr[t].op = "unregisterCurrentClient"
        /\ thr[t].err = "none"
        /\ currentClient[t].index = thr[t].h
        /\ ~clients[thr[t].h].used
        /\ \E j \in Indices \ {thr[t].h} : clients[j].used

\* threads inside a registerClient that has taken a slot and not yet handed
\* its handle to the caller
Registering ==
    {t \in Threads : /\ thr[t].op = "registerClient"
                     /\ thr[t].pc # "idle"
                     /\ thr[t].err = "none"}

\* C12: every handle registerClient returns has arena # 0 and an index in
\* [0, ArenaMallocMaxClients); the handles that were returned and not yet
\* unregistered are pairwise different in index and in arena, each names a
\* slot in use holding its arena, and the number of slots in use is the
\* number of these handles plus the registrations still on their way back to
\* the caller.
C12_HandleUniqueness ==
    /\ \A t \in Threads :
           (thr[t].pc = "ret" /\ thr[t].op = "registerClient"
               /\ thr[t].err = "none") =>
               /\ thr[t].res # 0
               /\ thr[t].h \in 0..(ArenaMallocMaxClients - 1)
    /\ \A k \in 1..Len(handles) :
           /\ handles[k].arena # 0
           /\ handles[k].index \in 0..(ArenaMallocMaxClients - 1)
           /\ clients[handles[k].index].used
           /\ clients[handles[k].index].arena = handles[k].arena
    /\ \A j, k \in 1..Len(handles) :
           j # k => /\ handles[j].index # handles[k].index
                    /\ handles[j].arena # handles[k].arena
    /\ Cardinality({i \in Indices : clients[i].used})
           = Len(handles) + Cardinality(Registering)

\* two handles are held, the one of the lower slot handed out last, while a
\* call of another thread is running
C12_Witness ==
    /\ Len(handles) = 2
    /\ handles[1].index > handles[2].index
    /\ \E t \in Threads : thr[t].pc \notin {"idle", "ret"}

\* C13: a slot's arena, once nonzero, never changes: unregister keeps it and
\* a registerClient that takes the slot again returns it and creates nothing.
\* An arena is created only by a registerClient whose chosen slot has arena 0,
\* one at a time, so the arenas created are as many as the slots that have
\* one, at most ArenaMallocMaxClients.
C13_ArenaPersistence ==
    [][/\ \A i \in Indices :
              clients[i].arena # 0 => clients'[i].arena = clients[i].arena
       /\ \A t \in Threads :
              ( /\ thr[t].pc = "idle"
                /\ thr'[t].op = "registerClient"
                /\ thr'[t].err = "none" ) =>
                  LET i == thr'[t].h
                  IN IF clients[i].arena = 0
                     THEN /\ arenasCreated' = arenasCreated + 1
                          /\ clients'[i].arena # 0
                          /\ \A j \in Indices \ {i} :
                                 clients'[j].arena # clients'[i].arena
                     ELSE /\ arenasCreated' = arenasCreated
                          /\ clients'[i].arena = clients[i].arena
       /\ \A t \in Threads :
              ( /\ Moved(t)
                /\ thr'[t].pc = "ret"
                /\ thr'[t].op = "registerClient"
                /\ thr'[t].err = "none" ) =>
                  thr'[t].res = clients[thr'[t].h].arena
       /\ arenasCreated' # arenasCreated =>
              \E t \in Threads : /\ thr[t].pc = "idle"
                                  /\ thr'[t].op = "registerClient"
       /\ arenasCreated' = Cardinality({i \in Indices : clients'[i].arena # 0})
       /\ arenasCreated' <= ArenaMallocMaxClients
      ]_vars

\* a registerClient has taken a slot that kept its arena from an earlier
\* registration, creating none
C13_Witness ==
    \E t \in Threads :
        /\ thr[t].op = "registerClient"
        /\ thr[t].pc \notin {"idle", "ret"}
        /\ ~thr[t].newArena
        /\ clients[thr[t].h].used
        /\ clients[thr[t].h].arena # 0
        /\ arenasCreated < ArenaMallocMaxClients

\* what switchToClient({0, NoClientIndex, threadCache}) leaves in the
\* thread's currentClient
NoClientSelected(threadCache) ==
    [mallocFlags |-> IF threadCache /\ tcacheEnabled THEN 0
                     ELSE MALLOCX_TCACHE_NONE,
     index |-> NoClientIndex]

\* C15: switchFromClient() leaves the calling thread as
\* switchToClient({0, NoClientIndex, tcacheEnabled}) would: current index
\* NoClientIndex and flags naming no arena, 0 when thread caching is enabled
\* globally and MALLOCX_TCACHE_NONE when it is not, whatever client the
\* thread had before; nothing else changes.
C15_SwitchFrom ==
    [][\A t \in Threads :
          ( /\ thr[t].pc = "idle"
            /\ thr'[t].op = "switchFromClient" ) =>
              /\ thr'[t].pc = "ret"
              /\ thr'[t].err = "none"
              /\ currentClient'[t] = NoClientSelected(tcacheEnabled)
              /\ currentClient'[t].index = NoClientIndex
              /\ currentClient'[t].mallocFlags =
                     (IF tcacheEnabled THEN 0 ELSE MALLOCX_TCACHE_NONE)
              /\ \A u \in Threads \ {t} :
                     currentClient'[u] = currentClient[u]
              /\ UNCHANGED <<registryVars, tcacheEnabled, threadLocalData,
                             counters, memVars>>
       ]_vars

\* a thread that had a client selected with thread caching enabled has
\* switched from it
C15_Witness ==
    \E t \in Threads :
        /\ thr[t].pc = "ret"
        /\ thr[t].op = "switchFromClient"
        /\ tcacheEnabled
        /\ currentClient[t] = [mallocFlags |-> 0, index |-> NoClientIndex]
        /\ \E i \in Indices : threadLocalData[t][i] # 0

\* C14: no step of an allocation, a release or any other call but
\* updateTotalCounters writes a sink, and registerTotalCounter only records
\* it, so a sink still reads 0 after its client allocated;
\* updateTotalCounters writes into every registered sink of a slot in use the
\* bytes of the client's live blocks (nonzero exactly when there is one) and
\* leaves the other sinks alone.
C14_TotalSinks ==
    [][/\ (\A t \in Threads : thr'[t].op # "updateTotalCounters"
                                 \/ thr[t].pc # "idle") =>
              \A i \in Indices : totals'[i].value = totals[i].value
       /\ \A t \in Threads :
              ( /\ thr[t].pc = "idle"
                /\ thr'[t].op = "registerTotalCounter" ) =>
                  /\ totals'[thr'[t].h].registered
                  /\ \A i \in Indices \ {thr'[t].h} : totals'[i] = totals[i]
       /\ \A t \in Threads :
              ( /\ thr[t].pc = "idle"
                /\ thr'[t].op = "updateTotalCounters" ) =>
                  \A i \in Indices :
                      IF clients[i].used /\ totals[i].registered
                      THEN LET mine == {p \in Ptrs :
                                          /\ heap[p] # 0
                                          /\ blockArena[p] = clients[i].arena}
                           IN /\ totals'[i].registered
                              /\ totals'[i].value # 0 <=> mine # {}
                              /\ \A p \in mine : totals'[i].value >= heap[p]
                              /\ Cardinality(mine) = 1 =>
                                     \A p \in mine :
                                         totals'[i].value = heap[p]
                      ELSE totals'[i] = totals[i]
      ]_vars

\* a sink that read 0 while its client held a block has been written by
\* updateTotalCounters and is nonzero
C14_Witness ==
    \E t \in Threads, i \in Indices :
        /\ thr[t].pc = "ret"
        /\ thr[t].op = "updateTotalCounters"
        /\ clients[i].used
        /\ totals[i].registered
        /\ totals[i].value # 0
        /\ \E p \in Ptrs : heap[p] # 0 /\ blockArena[p] = clients[i].arena

\* C16: after switchToClient(a); switchToClient(b) a malloc is charged to b
\* alone: a's total is what it was and b's is raised by the size class of
\* the block.  One switchFromClient then leaves the thread with no client: a
\* further malloc is charged to neither, and the thread's current index is
\* NoClientIndex, not a.
C16_Overwrite ==
    Done("overwrite") =>
        /\ \A k \in 1..11 : obs[1][k].err = "none"
        /\ obs[1][6].acc = obs[1][1].acc
        /\ obs[1][7].acc = obs[1][2].acc + je_nallocx(NormSize(script.n))
        /\ obs[1][10].acc = obs[1][6].acc
        /\ obs[1][11].acc = obs[1][7].acc
        /\ obs[1][5].res # NULL /\ obs[1][9].res # NULL
        /\ blockArena[obs[1][5].res] = clients[obs[1][2].h].arena
        /\ blockArena[obs[1][9].res] = 0
        /\ currentClient[1].index = NoClientIndex
        /\ currentClient[1] = NoClientSelected(tcacheEnabled)

\* the scenario has run on two clients: the block is charged to the second
\* and the first reads as before
C16_Witness ==
    /\ Done("overwrite")
    /\ obs[1][6].res = obs[1][1].res
    /\ obs[1][7].res > obs[1][2].res
    /\ obs[1][11].res = obs[1][7].res
    /\ currentClient[1].index = NoClientIndex

\* the samples the main thread took while the worker allocated, and after
\* it; the size class of the block the worker took meanwhile
Racing == obs[1][3]
Quiet == obs[1][4]
Taken == heap[obs[2][4].res]

\* C17: getPreciseAllocated drains every shard of the client.  What was
\* charged and credited before the call was entered (a block taken and given
\* back: net 0) is in the value returned, a block taken meanwhile may or may
\* not be; a later call with no allocation running finds the net bytes
\* charged since registration and leaves every shard of the client at 0.
C17_DrainsEveryShard ==
    Done("shared") =>
        /\ Racing.acc \in {0, Taken}
        /\ Quiet.acc = Taken
        /\ Quiet.res = Taken
        /\ SignedTotal(script.h) = clientEstimatedMemory[script.h]

\* C18: getEstimatedAllocated(h) returns max(0, clientEstimatedMemory[h.index])
\* in one step and changes nothing: not the aggregate, not a shard of any
\* client, no lock.  Its result depends on the aggregate alone, so calls
\* between which nothing is folded return the same value, whatever the
\* shards hold.
C18_EstimatedReadOnly ==
    [][\A t \in Threads :
          ( /\ thr[t].pc = "idle"
            /\ thr'[t].op = "getEstimatedAllocated" ) =>
              LET v == clientEstimatedMemory[thr'[t].h]
              IN /\ thr'[t].pc = "ret"
                 /\ thr'[t].err = "none"
                 /\ thr'[t].res = (IF v < 0 THEN 0 ELSE v)
                 /\ UNCHANGED <<counters, accessLock, registryVars,
                                switchVars, memVars>>
       ]_vars

\* the estimate was read while the shards of the client held bytes not yet
\* folded into it
C18_Witness ==
    \E t \in Threads :
        /\ thr[t].pc = "ret"
        /\ thr[t].op = "getEstimatedAllocated"
        /\ SignedTotal(thr[t].h) > clientEstimatedMemory[thr[t].h]
        /\ thr[t].res = ClampUnsigned(clientEstimatedMemory[thr[t].h])

\* the next step of thread t's call would take a counter beyond ByteCap
AtCap(t) ==
    LET i == ChainIndex(t)
        c == taCache[i][t]
    IN \/ /\ thr[t].pc = "inc"
          /\ ~InCap((IF c.exists /\ ~c.reset THEN c.val ELSE 0) + IncAmount(t))
       \/ /\ thr[t].pc = "flush1"
          /\ ~InCap(taTarget[i] + c.val)
       \/ /\ thr[t].pc = "add"
          /\ ~InCap(clientEstimatedMemory[i] + thr[t].acc)

\* C19: a thread inside malloc, calloc, realloc, free or sized_free can
\* always take its next step, and an idle thread can always enter free (and
\* malloc, while the heap has room), whoever holds the registry's writer
\* lock; while the lock is held, registerClient and unregisterClient of
\* other threads wait.
C19_HotPathNeverBlocks ==
    \A t \in Threads :
        /\ (thr[t].op \in MemOps /\ thr[t].pc \notin {"idle", "ret"}) =>
               ENABLED Step(t) \/ AtCap(t)
        /\ thr[t].pc = "idle" =>
               /\ ENABLED CallFree(t, NULL)
               /\ Cardinality(FreePtrs) > Cardinality(Allocating) =>
                      ENABLED CallMalloc(t, 20)
               /\ clientsLock # NoThread =>
                      /\ ~ENABLED CallRegisterClient(t, FALSE)
                      /\ \A i \in Indices : ~ENABLED UnregisterClient(t, i)

\* a thread is about to charge an allocation while another thread holds the
\* writer lock inside registerClient
C19_Witness ==
    \E t \in Threads, u \in Threads :
        /\ t # u
        /\ clientsLock = u
        /\ thr[u].op = "registerClient"
        /\ thr[t].op \in MemOps
        /\ thr[t].pc = "inc"

\* C20: switchToClient(h) on a handle whose slot has been unregistered
\* succeeds and selects h.index; a malloc made then is served from h's arena
\* and charged to the counters of h.index, and one made after the index has
\* been registered again is charged to the new client of that index.
C20_StaleHandle ==
    Done("stale") =>
        LET size == je_nallocx(NormSize(script.n))
        IN /\ obs[1][1].err = "none"
           /\ obs[1][2].op = "switchToClient" /\ obs[1][2].err = "none"
           /\ obs[1][3].res # NULL
           /\ blockArena[obs[1][3].res] = clients[script.h].arena
           /\ obs[1][4].acc = script.base + size
           /\ obs[1][5].err = "none"
           /\ currentClient[1].index = script.h
           /\ obs[1][7].acc = (IF obs[1][5].h = script.h THEN size ELSE 0)

\* the index was registered again and the new client is charged for the
\* block taken through the old handle
C20_Witness ==
    /\ Done("stale")
    /\ obs[1][5].h = script.h
    /\ obs[1][4].res > 0
    /\ obs[1][7].res > 0

\* ------------------------------------------- NonNegativeCounter properties
\* the last operation on the counter was one of `ops`
Called(ops) == nnCall.op \in ops

\* C21: under SaturateOverflowPolicy, fetch_sub(k) and fetch_add(-k) with k
\* greater than the current value store 0 and return the previous value;
\* pre- and post-decrement at 0 return 0 and leave 0; fetch_add and ++ that
\* would exceed max store max.
C21_Saturate ==
    nnAtomic.policy = "Saturate" =>
        /\ (Called({"fetch_sub"}) /\ nnCall.arg > nnCall.current)
               => (nnAtomic.value = 0 /\ nnCall.ret = nnCall.current)
        /\ (Called({"fetch_add"}) /\ -nnCall.arg > nnCall.current)
               => (nnAtomic.value = 0 /\ nnCall.ret = nnCall.current)
        /\ (Called({"--pre", "post--"}) /\ nnCall.current = 0)
               => (nnAtomic.value = 0 /\ nnCall.ret = 0)
        /\ (/\ Called({"fetch_add", "++pre", "post++"})
            /\ nnCall.arg >= 0
            /\ nnCall.current + nnCall.arg > CounterMax)
               => nnAtomic.value = CounterMax

\* the result the last operation would have in the integers
Exact ==
    IF Called({"fetch_add", "+=", "++pre", "post++"})
    THEN nnCall.current + nnCall.arg
    ELSE nnCall.current - nnCall.arg

Modifying ==
    Called({"fetch_add", "fetch_sub", "+=", "-=", "++pre", "post++", "--pre",
            "post--"})

\* C22: under ThrowExceptionOverflowPolicy an operation whose result would
\* fall below 0 throws std::underflow_error, one whose result would exceed
\* max throws std::overflow_error, and the stored value is unchanged.
C22_Throws ==
    (nnAtomic.policy = "ThrowException" /\ Modifying) =>
        /\ (Exact < 0) => (/\ nnCall.thrown = "underflow_error"
                           /\ nnAtomic.value = nnCall.current)
        /\ (Exact > CounterMax) => (/\ nnCall.thrown = "overflow_error"
                                    /\ nnAtomic.value = nnCall.current)

\* C23: in-range arithmetic is exact.  fetch_sub(k) with 0 <= k <= current,
\* fetch_add(k) with current + k <= max and fetch_add(-k) with k <= current
\* store the exact result, return the previous value and do not invoke the
\* overflow policy.
C23_InRangeExact ==
    (/\ Called({"fetch_add", "fetch_sub"})
     /\ (Called({"fetch_sub"}) => nnCall.arg >= 0)
     /\ Exact \in 0..CounterMax)
    => (/\ nnAtomic.value = Exact
        /\ nnCall.ret = nnCall.current
        /\ nnCall.policy = "none")

\* C24: sign symmetry.  fetch_sub(-k) and `-= -k` with k > 0 and
\* current + k <= max store current + k, as fetch_add(k) does, and do not
\* invoke the overflow policy.
C24_SignSymmetry ==
    (/\ Called({"fetch_sub", "-="})
     /\ nnCall.arg < 0
     /\ Exact <= CounterMax)
    => (/\ nnAtomic.value = Exact
        /\ nnAtomic.value =
               fetch_add(nnAtomic.policy, nnCall.current, -nnCall.arg).desired
        /\ nnCall.policy = "none")

\* C25: calloc(m, n) made with a client selected charges the client
\* je_nallocx(m * n), the size of the whole block, which is what the free of
\* the block credits later: the client's total is raised by that much while
\* the block is held and is back where it was afterwards (scenario
\* calloc(2, n); free).
C25_CallocCharge ==
    Done("calloc_free") =>
        /\ Held1.acc = Base.acc + je_nallocx(2 * script.n)
        /\ Last.acc = Base.acc

\* ------------------------------------------------- the sizes scenario
\* the thread is between its calls, k of them made
Made(k) == script.kind = "sizes" /\ Len(obs[1]) = k /\ thr[1].pc = "idle"

\* the samples: before the block is taken, while it is held, after the
\* realloc, after it was given back, after nullptr was given back
S0 == obs[1][4]
S1 == obs[1][6]
S2 == obs[1][8]
S3 == obs[1][10]
S4 == obs[1][12]
\* what the take, the realloc and the two gives returned
Took == obs[1][5]
Resized == obs[1][7]

\* C26: malloc(0) charges and allocates as malloc(8) does, and realloc(p, 0)
\* of a live block is no free: it returns a live block of the 8-byte class,
\* and the client's total afterwards is that one block.
C26_ZeroSize ==
    /\ (Made(6) /\ script.n = 0 /\ Took.op = "malloc") =>
           /\ Took.res # NULL
           /\ heap[Took.res] = je_nallocx(8)
           /\ S1.acc = S0.acc + je_nallocx(8)
    /\ (Made(8) /\ script.m = 0) =>
           /\ Resized.res # NULL
           /\ heap[Resized.res] = je_nallocx(8)
           /\ S2.acc = S0.acc + je_nallocx(8)
           /\ S2.res = je_nallocx(8)

C26_Witness ==
    /\ Made(8)
    /\ script.n = 0 /\ script.m = 0
    /\ Took.op = "malloc"
    /\ heap[Resized.res] = 8
    /\ S1.res = 8 /\ S2.res = 8

\* the size classes of the block as taken and as reallocated
TakenClass == je_nallocx(NormSize(script.n))
ResizedClass == je_nallocx(NormSize(script.m))

\* C27: realloc(nullptr, n) charges je_nallocx(n), credits nothing and
\* returns a live block as malloc(n) does; realloc(p, n) of a live block
\* credits je_sallocx(p) and charges je_nallocx(n), so the client's total
\* changes by the difference: up when the new size class is larger, down
\* when it is smaller.
C27_Realloc ==
    /\ (Made(6) /\ Took.op = "realloc") =>
           /\ Took.res # NULL
           /\ heap[Took.res] = TakenClass
           /\ S1.acc = S0.acc + TakenClass
    /\ Made(8) =>
           /\ Resized.res # NULL
           /\ heap[Resized.res] = ResizedClass
           /\ S2.acc - S1.acc = ResizedClass - TakenClass
           /\ ResizedClass > TakenClass => S2.res > S1.res
           /\ ResizedClass < TakenClass => S2.res < S1.res

\* a block from realloc(nullptr, 20) was reallocated to 1 byte
C27_Witness ==
    /\ Made(8)
    /\ Took.op = "realloc"
    /\ script.n = 20 /\ script.m = 1
    /\ S1.res = 32 /\ S2.res = 8

\* what the give of the block and the give of nullptr returned
Gave == obs[1][9]
GaveNull == obs[1][11]

\* C28: free(nullptr) and sized_free(nullptr, n) do nothing: they reach
\* neither the accounting nor the allocator, and the client's total is what
\* it was.  free(p) and sized_free(p, n) of a live block credit
\* je_sallocx(p), whatever n is, and release the block.
C28_Free ==
    /\ \A t \in Threads :
           (thr[t].op \in Gives /\ thr[t].pc \notin {"idle", "ret"}) =>
               /\ thr[t].ptr # NULL
               /\ thr[t].pc = "inc" => IncAmount(t) = -heap[thr[t].ptr]
    /\ Made(10) =>
           /\ S3.acc = S2.acc - ResizedClass
           /\ heap[Resized.res] = 0
    /\ Made(12) =>
           /\ S4.acc = S3.acc
           /\ GaveNull.res = NULL
           /\ heap = [p \in Ptrs |-> 0]

\* a block of the 32-byte class was given back by sized_free(p, 20), and
\* then sized_free(nullptr, 20) was called
C28_Witness ==
    /\ Made(12)
    /\ Gave.op = "sized_free" /\ GaveNull.op = "sized_free"
    /\ script.m = 20
    /\ S2.res = 32 /\ S3.res = 0 /\ S4.res = 0

\* the shard of client i: the thread-cached accumulator threadAllocated[i],
\* its shared part and every thread's part of it
Shard(i) == taTarget[i] + SumCaches(i, Threads)

\* C29: after a charge or a credit was applied to a shard, the shard's new
\* value v is compared with the client's threshold: if |v| > threshold the
\* shard is exchanged to 0 and the value taken out is added to the
\* aggregate; otherwise the operation leaves the aggregate alone.
C29_DriftFlush ==
    [][\A t \in Threads :
           /\ (thr[t].pc = "maybe" /\ Moved(t)) =>
                  ((Abs(Shard(ChainIndex(t))) > threadThreshold[ChainIndex(t)])
                       <=> (thr'[t].pc = "xchg"))
           /\ (thr[t].pc = "xchg" /\ Moved(t)) =>
                  /\ Shard(ChainIndex(t))' = 0
                  /\ thr'[t].acc = Shard(ChainIndex(t))
           /\ (thr[t].pc = "add" /\ Moved(t)) =>
                  clientEstimatedMemory'[ChainIndex(t)] =
                      clientEstimatedMemory[ChainIndex(t)] + thr[t].acc
           /\ (thr[t].op \in MemOps /\ thr[t].pc # "add" /\ Moved(t)) =>
                  UNCHANGED clientEstimatedMemory
      ]_vars

\* ------------------------------------------------ conservation of bytes
RECURSIVE SumOver(_, _)
\* the sum of f over the set S
SumOver(f, S) ==
    IF S = {} THEN 0
    ELSE LET x == CHOOSE y \in S : TRUE
         IN  f[x] + SumOver(f, S \ {x})

\* the steps of memAllocated/memDeallocated after the increment
PostInc == {"flush1", "flush2", "readFast", "maybe", "xchg", "add"}

\* bytes the running call of thread t has charged to client i and the heap
\* does not show yet, less bytes it has credited for a block the heap still
\* shows
Applied(t, i) ==
    LET f == thr[t]
        running == f.op \in MemOps /\ f.pc \notin {"idle", "ret"}
                   /\ CurrentIndex(t) = i
        charged == \/ f.phase = "alloc" /\ f.pc \in PostInc
                   \/ f.pc = "je" /\ f.op \notin Gives
        credited == /\ f.ptr # NULL
                    /\ \/ f.phase = "dealloc" /\ f.pc \in PostInc
                       \/ f.phase = "alloc"
                       \/ f.pc = "je"
    IN  IF ~running THEN 0
        ELSE (IF charged THEN je_nallocx(f.size) ELSE 0)
             - (IF credited THEN heap[f.ptr] ELSE 0)

\* what thread u's part of shard i holds; a part whose value is being moved
\* (flushed by its owner, or read and about to be marked by a drain) counts
\* where it was moved to
PartOf(i, u) ==
    LET c == taCache[i][u]
        moved == \/ thr[u].pc = "flush2" /\ ChainIndex(u) = i
                 \/ \E t \in Threads : /\ thr[t].pc = "rfar_mark"
                                       /\ thr[t].cur = u
                                       /\ ChainIndex(t) = i
    IN  IF c.exists /\ ~c.reset /\ ~moved THEN c.val ELSE 0

\* what thread t has taken out of shard i and not yet added to the aggregate
TakenOut(t, i) ==
    IF /\ ChainIndex(t) = i
       /\ \/ thr[t].op \in MemOps /\ thr[t].pc = "add"
          \/ /\ thr[t].op = "getPreciseAllocated"
             /\ thr[t].pc \in {"rfar_read", "rfar_mark", "gp_add"}
    THEN thr[t].acc
    ELSE 0

\* aggregate + shards + values in transit, and charged - credited
Counted(i) ==
    clientEstimatedMemory[i] + taTarget[i]
    + SumOver([u \in Threads |-> PartOf(i, u)], Threads)
    + SumOver([t \in Threads |-> TakenOut(t, i)], Threads)
Owed(i) ==
    SumOver(heap, Ptrs) + SumOver([t \in Threads |-> Applied(t, i)], Threads)

\* C30: for a client all of whose blocks were taken and given back inside it,
\* in every state the aggregate, the shards and the values taken out of a
\* shard but not yet added to the aggregate sum to the bytes charged less the
\* bytes credited since registration, whatever the interleaving of
\* allocations, folds and getPreciseAllocated calls of different threads.
C30_Conservation ==
    script.kind \in {"shared_warm", "shared_race", "shared"} =>
        Counted(script.h) = Owed(script.h)

\* the same sums for the single thread of the sizes scenario, once it is
\* switched to its client: with one thread nothing is lost
ConservedSequentially ==
    (script.kind = "sizes" /\ Len(obs[1]) >= 3) =>
        Counted(obs[1][1].h) = Owed(obs[1][1].h)

\* C38: a successful unregisterClient(h) or unregisterCurrentClient() clears
\* the used flag of that one slot and changes nothing else: the slot keeps
\* its arena, the aggregate, the shards and the threshold of the client stay
\* as they were, every other slot, the heap, the sinks and every thread's
\* current client and flags, the caller's included, are unchanged.
C38_UnregisterFrame ==
    [][\A t \in Threads :
          ( /\ thr[t].pc = "idle"
            /\ thr'[t].op \in {"unregisterClient", "unregisterCurrentClient"}
            /\ thr'[t].err = "none" ) =>
              LET i == thr'[t].h
              IN /\ clients[i].used
                 /\ clients' = [clients EXCEPT ![i].used = FALSE]
                 /\ clients'[i].arena = clients[i].arena
                 /\ UNCHANGED <<clientsLock, arenasCreated, switchVars,
                                trackerVars, memVars>>
                 /\ \A u \in Threads \ {t} : thr'[u] = thr[u]
       ]_vars

\* a thread has unregistered the client it is switched to and stays switched
\* to it, with bytes of the client still in its shard
C38_Witness ==
    \E t \in Threads :
        /\ thr[t].pc = "ret"
        /\ thr[t].op = "unregisterCurrentClient"
        /\ thr[t].err = "none"
        /\ currentClient[t].index = thr[t].h
        /\ currentClient[t].mallocFlags # 0
        /\ ~clients[thr[t].h].used
        /\ clients[thr[t].h].arena # 0
        /\ SignedTotal(thr[t].h) > 0

\* the staged scenario of kind k has run all its stages
StagedDone(k) ==
    /\ script.kind = k
    /\ script.stage = Len(Stages(script))
    /\ AllIdle
    /\ \A t \in Threads : prog[t] = <<>>

\* C31: the load of getPreciseAllocated and getEstimatedAllocated never writes
\* the aggregate: a negative value stays stored and only the value returned is
\* clamped to 0.  After a block was charged on one thread and credited on
\* another, the stored aggregate is what the folds made so far brought in -
\* minus the block's size when only the credit was folded, 0, or the block's
\* size when only the charge was - and the estimate read is that value
\* clamped; once both threads have allocated again and no call is running,
\* getPreciseAllocated returns exactly the bytes of the client's live blocks.
C31_Excursion ==
    [][/\ \A t \in Threads :
              ( /\ Moved(t)
                /\ thr'[t].pc = "ret"
                /\ thr'[t].op \in Queries ) =>
                  /\ clientEstimatedMemory' = clientEstimatedMemory
                  /\ thr'[t].acc = clientEstimatedMemory[thr'[t].h]
                  /\ thr'[t].res = Max(0, thr'[t].acc)
       /\ (script'.kind = "excursion" /\ Len(obs'[1]) >= 5) =>
              /\ obs'[1][5].res = Max(0, obs'[1][5].acc)
              /\ obs'[1][5].acc \in {-je_nallocx(script'.n), 0,
                                     je_nallocx(script'.n)}
       /\ StagedDone("excursion")' =>
              /\ obs'[1][8].acc = 2 * je_nallocx(script'.m)
              /\ obs'[1][8].res = obs'[1][8].acc
              /\ obs'[1][8].res = heap'[1] + heap'[2]
              /\ clientEstimatedMemory'[0] = obs'[1][8].acc
      ]_vars

\* the aggregate was negative when the estimate was read, and the precise total
\* read at the end is the size of the two live blocks
C31_Witness ==
    /\ StagedDone("excursion")
    /\ obs[1][5].acc < 0
    /\ obs[1][5].res = 0
    /\ obs[1][8].res = 2 * je_nallocx(script.m)
    /\ obs[1][8].res > 0

\* the estimate the worker of the threshold scenario read before the client
\* was unregistered, and the last call it made
FirstEstimate == obs[script.worker][(IF script.worker = 1 THEN 2 ELSE 0) + 4]
LastObserved == obs[script.worker][Len(obs[script.worker])]

\* C37: threadThreshold[i] is written only by updateClientThreshold, with the
\* threshold of the handle, and by registerClient, with the threshold of the
\* handle it returns, whatever the slot held before; every fold decision
\* compares with the value stored at that moment.  So allocations that start
\* on another thread after updateClientThreshold returned fold above the new
\* threshold, and after the index was registered again nothing is folded
\* below the new client's threshold: the estimate stays 0.
C37_Threshold ==
    [][/\ \A t \in Threads :
              (thr[t].pc = "maybe" /\ Moved(t)) =>
                  ((thr'[t].pc = "xchg") <=>
                       (Abs(thr[t].acc) > threadThreshold[ChainIndex(t)]))
       /\ \A t \in Threads :
              (thr[t].pc = "idle" /\ thr'[t].op = "updateClientThreshold") =>
                  threadThreshold'[thr'[t].h] \in Thresholds
       /\ \A t \in Threads :
              (thr[t].pc = "cr_threshold" /\ Moved(t)) =>
                  threadThreshold'[thr[t].h] = DefaultEstimateUpdateThreshold
       /\ \A i \in Indices :
              (threadThreshold'[i] # threadThreshold[i]) =>
                  \E t \in Threads :
                      \/ /\ thr[t].pc = "idle"
                         /\ thr'[t].op = "updateClientThreshold"
                         /\ thr'[t].h = i
                      \/ /\ thr[t].pc = "cr_threshold"
                         /\ Moved(t)
                         /\ thr[t].h = i
       /\ (script'.kind = "threshold" /\ script'.stage = 2) =>
              (threadThreshold'[0] \in Thresholds)
       /\ (script'.kind = "threshold" /\ script'.stage = 4) =>
              (threadThreshold'[0] = DefaultEstimateUpdateThreshold)
       /\ StagedDone("threshold")' =>
              /\ LastObserved'.op = "getEstimatedAllocated"
              /\ LastObserved'.acc = 0
      ]_vars

\* the worker's allocations were folded above the threshold another thread
\* had installed; the slot was registered again, and the worker's next
\* allocations, more than that threshold in all, were not folded
C37_Witness ==
    /\ StagedDone("threshold")
    /\ script.worker # 1
    /\ FirstEstimate.acc > CHOOSE th \in Thresholds : TRUE
    /\ LastObserved.acc = 0
    /\ obs[1][4].op = "registerClient"
    /\ obs[1][4].h = obs[1][1].h
    /\ Abs(taTarget[0]) > CHOOSE th \in Thresholds : TRUE
    /\ threadThreshold[0] = DefaultEstimateUpdateThreshold

\* thread t is inside the threadUp(client.index) of a switchToClient
InThreadUp(t) ==
    thr[t].op = "switchToClient" /\ thr[t].pc \in {"inc", "flush1", "flush2"}

\* C32: every switchToClient to a handle with an index calls threadUp on that
\* index; from its entry until threadUp has returned the thread's current
\* client is {flags 0, NoClientIndex}, so an allocation made in between is
\* charged to no client; the index is installed only afterwards, so whenever a
\* thread has a client selected its IntCache of that index exists, and no
\* charge or credit ever has to create it.
C32_WarmUp ==
    [][\A t \in Threads :
          /\ (thr[t].pc = "idle" /\ thr'[t].op = "switchToClient"
                 /\ thr'[t].h # NoClientIndex) =>
                 /\ thr'[t].pc = "inc"
                 /\ ChainIndex(t)' = thr'[t].h
                 /\ IncAmount(t)' = 0
          /\ InThreadUp(t)' =>
                 /\ currentClient'[t] =
                        [mallocFlags |-> 0, index |-> NoClientIndex]
                 /\ ~Tracked(CurrentIndex(t))'
          /\ (thr'[t].op = "switchToClient" /\ thr'[t].pc = "install") =>
                 /\ currentClient'[t].index = NoClientIndex
                 /\ taCache'[thr'[t].h][t].exists
          /\ (currentClient'[t].index # NoClientIndex) =>
                 taCache'[currentClient'[t].index][t].exists
          /\ (thr[t].pc = "inc" /\ thr[t].op \in MemOps /\ Moved(t)) =>
                 taCache[ChainIndex(t)][t].exists
      ]_vars

\* a thread that has used another index before is switching to a client:
\* threadUp has made its IntCache of the new index and the thread has no
\* client, while the other thread has been served a block charged to the
\* client it is switched to
C32_Witness ==
    \E t \in Threads, u \in Threads :
        /\ thr[t].op = "switchToClient"
        /\ thr[t].pc = "install"
        /\ currentClient[t].index = NoClientIndex
        /\ taCache[thr[t].h][t].exists
        /\ \E j \in Indices \ {thr[t].h} : taCache[j][t].numUpdates > 0
        /\ u # t
        /\ thr[u].op = "malloc"
        /\ thr[u].pc = "ret"
        /\ currentClient[u].index \in Indices
        /\ taCache[currentClient[u].index][u].val > 0

\* thread t enters switchToClient with a handle that has an index
Switching(t) ==
    /\ thr[t].pc = "idle"
    /\ thr'[t].op = "switchToClient"
    /\ thr'[t].h # NoClientIndex

\* the tcache ids recorded by the threads
Recorded == {<<t, i>> \in Threads \X Indices : threadLocalData[t][i] # 0}

\* C33: a switchToClient creates a thread cache exactly when thread caching is
\* wished by the handle and enabled globally and the thread has no id stored
\* for the index; it then stores the new id.  A stored id is never replaced, no
\* id is created twice or stored by two threads or for two indices, and the
\* flags installed name the stored id, or MALLOCX_TCACHE_NONE when thread
\* caching is off for the switch, which then creates and stores nothing.
C33_LazyTCache ==
    [][/\ \A t \in Threads :
              Switching(t) =>
                  LET i == thr'[t].h
                      made == thr'[t].tc /\ threadLocalData[t][i] = 0
                  IN /\ thr'[t].tc => tcacheEnabled
                     /\ made =>
                            /\ threadLocalData'[t][i] # 0
                            /\ tcaches'[threadLocalData'[t][i]].created =
                                   tcaches[threadLocalData'[t][i]].created + 1
                            /\ \A id \in TCacheIds \ {threadLocalData'[t][i]} :
                                   tcaches'[id] = tcaches[id]
                     /\ ~made => UNCHANGED <<threadLocalData, tcaches>>
                     /\ ~thr'[t].tc => UNCHANGED tcacheVars
                     /\ \A u \in Threads, j \in Indices :
                            <<u, j>> # <<t, i>> =>
                                threadLocalData'[u][j] = threadLocalData[u][j]
       /\ (\A t \in Threads : ~Switching(t)) =>
              UNCHANGED <<threadLocalData>>
       /\ \A t \in Threads, i \in Indices :
              threadLocalData[t][i] # 0 =>
                  threadLocalData'[t][i] = threadLocalData[t][i]
       /\ \A id \in TCacheIds :
              /\ tcaches'[id].created <= 1
              /\ (tcaches'[id].created = 1) <=>
                     (\E r \in Recorded' : threadLocalData'[r[1]][r[2]] = id)
       /\ \A r \in Recorded', q \in Recorded' :
              r # q => threadLocalData'[r[1]][r[2]] # threadLocalData'[q[1]][q[2]]
       /\ \A t \in Threads :
              (thr[t].pc = "install" /\ Moved(t)) =>
                  /\ thr[t].tc => threadLocalData[t][thr[t].h] # 0
                  /\ currentClient'[t].mallocFlags =
                         MALLOCX_ARENA(thr[t].arena)
                         + (IF thr[t].tc
                            THEN MALLOCX_TCACHE(threadLocalData[t][thr[t].h])
                            ELSE MALLOCX_TCACHE_NONE)
                  /\ UNCHANGED tcacheVars
      ]_vars

\* one thread registered a client and did nothing else; the other switched to
\* it twice with thread caching on: one thread cache was created and the second
\* switch installed the id stored by the first
C33_Witness ==
    \E t \in Threads, u \in Threads :
        /\ u # t
        /\ callsMade = 3
        /\ Len(handles) = 1
        /\ taCache[handles[1].index][u].exists
        /\ currentClient[u] = [mallocFlags |-> 0, index |-> NoClientIndex]
        /\ tld[u] = "null"
        /\ thr[u].pc = "idle"
        /\ thr[t].op = "switchToClient"
        /\ thr[t].pc = "ret"
        /\ taCache[handles[1].index][t].exists
        /\ taCache[handles[1].index][t].numUpdates = 0
        /\ threadLocalData[t][handles[1].index] # 0
        /\ tcaches[threadLocalData[t][handles[1].index]].created = 1
        /\ currentClient[t].mallocFlags =
               MALLOCX_ARENA(handles[1].arena)
               + MALLOCX_TCACHE(threadLocalData[t][handles[1].index])

\* thread t exits in this step
Exiting(t) == t \in Alive /\ t \notin Alive'

\* the ids stored in the ThreadLocalData of thread t
StoredIds(t) == {threadLocalData[t][i] : i \in Indices} \ {0}

Enters(t, ops) == thr[t].pc = "idle" /\ thr'[t].pc # "idle" /\ thr'[t].op \in ops

\* C35: tcacheEnabled overrides every client's wish.  The handle
\* registerClient(hint) builds, and returns, has threadCache = hint /\
\* tcacheEnabled as read during the call.  While tcacheEnabled is false every
\* switchToClient (and switchFromClient), whatever threadCache its handle
\* carries, makes no ThreadLocalData and no thread cache, and leaves flags
\* with MALLOCX_TCACHE_NONE: alone for a no-client handle, beside the arena
\* bits otherwise.
C35_TCacheOverride ==
    [][\A t \in Threads :
           /\ (Enters(t, {"registerClient"}) /\ thr'[t].err = "none")
                  => (thr'[t].tc = (thr'[t].hint /\ tcacheEnabled))
           /\ (thr[t].pc = "cr_threshold" /\ thr'[t].pc = "ret")
                  => (/\ thr'[t].tc = thr[t].tc
                      /\ thr'[t].tc = (thr[t].hint /\ tcacheEnabled))
           /\ (~tcacheEnabled
               /\ Enters(t, {"switchToClient", "switchFromClient"}))
                  => (/\ UNCHANGED tcacheVars
                      /\ (thr'[t].pc = "ret")
                             => (currentClient'[t].mallocFlags
                                     = MALLOCX_TCACHE_NONE)
                      /\ (thr'[t].pc # "ret") => ~thr'[t].tc)
           /\ (~tcacheEnabled /\ thr[t].pc = "install" /\ thr'[t].pc = "ret")
                  => (/\ UNCHANGED tcacheVars
                      /\ currentClient'[t].mallocFlags
                             = MALLOCX_ARENA(thr[t].arena)
                               + MALLOCX_TCACHE_NONE)
      ]_vars

\* with thread caching switched off, a thread has completed switchToClient
\* with a registered handle whose threadCache is true, for an index it owns a
\* thread cache for from before: its flags carry MALLOCX_TCACHE_NONE
C35_Witness ==
    /\ ~tcacheEnabled
    /\ \E t \in Threads :
           /\ thr[t].op = "switchToClient"
           /\ thr[t].pc = "ret"
           /\ thr[t].hint
           /\ thr[t].h \in Indices
           /\ thr[t].arena # 0
           /\ threadLocalData[t][thr[t].h] # 0
           /\ currentClient[t] =
                  [mallocFlags |-> MALLOCX_ARENA(thr[t].arena)
                                   + MALLOCX_TCACHE_NONE,
                   index |-> thr[t].h]

\* C36: switchToClient with a handle whose arena is 0, whatever its index,
\* returns at once with flags 0 (thread caching wished and enabled) or
\* MALLOCX_TCACHE_NONE, and makes no ThreadLocalData and no thread cache;
\* only a handle with a nonzero arena reaches the installation of
\* MALLOCX_ARENA(arena) + (MALLOCX_TCACHE(id) or MALLOCX_TCACHE_NONE).
C36_ArenaZero ==
    [][\A t \in Threads :
           /\ (Enters(t, {"switchToClient"}) /\ thr'[t].arena = 0)
                  => (/\ thr'[t].pc = "ret"
                      /\ currentClient'[t].mallocFlags =
                             (IF thr'[t].hint /\ tcacheEnabled THEN 0
                              ELSE MALLOCX_TCACHE_NONE)
                      /\ UNCHANGED tcacheVars)
           /\ (thr[t].pc = "install" /\ thr'[t].pc = "ret")
                  => (/\ thr[t].arena # 0
                      /\ currentClient'[t].mallocFlags
                             \in {MALLOCX_ARENA(thr[t].arena)
                                      + MALLOCX_TCACHE_NONE,
                                  MALLOCX_ARENA(thr[t].arena)
                                      + MALLOCX_TCACHE(
                                            threadLocalData[t][thr[t].h])})
      ]_vars

\* what a completed call was meant to add to the counter
DeltaOf(c) == IF c.op = "fetch_add" THEN c.arg ELSE -c.arg

\* the sum of F over the calls the threads have completed
CallSum(F(_)) ==
    SumOver([t \in Threads |->
                SumOver([k \in DOMAIN obs[t] |-> F(obs[t][k])],
                        DOMAIN obs[t])],
            Threads)

Rise(c) == IF DeltaOf(c) > 0 THEN DeltaOf(c) ELSE 0
Fall(c) == IF DeltaOf(c) < 0 THEN -DeltaOf(c) ELSE 0

\* the value the shared counter was constructed with
SharedInitial == nnCall.arg

\* the amounts of the completed calls cannot drive the value out of
\* [0, max] in whatever order they are applied
NeverOutOfRange ==
    /\ SharedInitial - CallSum(Fall) >= 0
    /\ SharedInitial + CallSum(Rise) <= CounterMax

\* C39: when the threads' fetch_add / fetch_sub calls carry amounts that never
\* drive the value out of [0, max], no update is lost - once every call has
\* returned the value is the initial value plus the sum of all deltas - and
\* every call returns the value its own compare-exchange replaced.
C39_AtomicUpdates ==
    [][/\ (AllIdle' /\ nnCall'.op = "construct" /\ NeverOutOfRange')
              => (/\ nnAtomic'.value
                         = SharedInitial' + CallSum(DeltaOf)'
                  /\ \A t \in Threads :
                         \A k \in 1..Len(obs'[t]) :
                             obs'[t][k].thrown = "none")
       /\ \A t \in Threads :
              (thr[t].pc = "loop" /\ nnAtomic'.value # nnAtomic.value)
                  => (thr'[t].pc = "ret" => thr'[t].current = nnAtomic.value)
      ]_vars

\* Every store into the shared counter is the compare-exchange of one call,
\* replaces exactly the value that call returns, and puts in its place what
\* the loop body makes of that value; a call whose compare-exchange finds
\* another value stores nothing.
CasLosesNoUpdate ==
    [][(nnAtomic'.value # nnAtomic.value /\ nnCall.op = "construct")
           => \E t \in Threads :
                  /\ thr[t].pc = "loop"
                  /\ thr'[t].pc = "ret"
                  /\ thr'[t].current = nnAtomic.value
                  /\ nnAtomic'.value =
                         LoopBody(thr[t].op, nnAtomic.value,
                                  thr[t].arg).desired
                  /\ \A u \in Threads \ {t} : thr'[u] = thr[u]
      ]_vars

====
